---------------------------- MODULE Spec2Model ----------------------------
(***************************************************************************)
(* Model of the self-contained GIF encoder (GIFEncoder): the session       *)
(* buffer with start / addFrame / finish, the per-frame colour quantizer   *)
(* and pixel indexer, and the LZW compressor with its bit packer and       *)
(* sub-block writer.  A reference GIF LZW decoder is included to state the *)
(* decodability properties of the encoder's output.                        *)
(***************************************************************************)
EXTENDS Integers, Sequences, FiniteSets, TLC

VARIABLES
    width,      \* GIFEncoder: constructor argument width
    height,     \* GIFEncoder: constructor argument height
    data,       \* GIFEncoder: this.data, the output byte buffer
    canvas,     \* the pixels ctx.getImageData returns: width*height RGB triples
    calls,      \* the calls made on the encoder so far, in order: <<op, delay>>
    pc,         \* position inside a stepwise run of lzwEncode / of the decoder
    plane,      \* lzwEncode: its argument `pixels` (an index plane)
    lz,         \* lzwEncode: its locals (codeSize, nextCode, dict, buffer, ...)
    dec,        \* reference decoder: its state while reading the payload
    twin,       \* this.data of a second GIFEncoder of the same width and height
    opts,       \* GIFGenerator: this.quality, this.workers, this.loop
    frames,     \* GIFGenerator: this.frames
    gif,        \* GIFGenerator: this.gif, Null or <<the GIF object>>
    bounds,     \* TextLayoutManager: this.bounds
    placedRegions,  \* TextLayoutManager: this.placedRegions
    anim,       \* the page: ANIMATION
    timers,     \* the page: the callbacks setTimeout has scheduled
    drv,        \* generate(): current, total, the function running and its i
    ui          \* the page: the percentage shown and the class of #status

vars == <<width, height, data, canvas, calls, pc, plane, lz, dec, twin,
          opts, frames, gif, bounds, placedRegions, anim, timers, drv, ui>>

\* the page of a state in which generate() is not run
NoAnimation == [totalFrames |-> 0, holdFrames |-> 0, frameDelay |-> 0, holdDelay |-> 0]
NoDriver == [current |-> 0, total |-> 0, fn |-> "", i |-> 0, delay |-> 0,
             rendered |-> <<>>]
NoPage == [pct |-> 0, status |-> ""]

\* the bounds of a state that holds no layout manager
NoBounds == [x |-> 0, y |-> 0, width |-> 0, height |-> 0]

\* null, and a reference to an object
Null == <<>>
Ref(obj) == <<obj>>

\* the generator fields of a state that holds no generator
NoOptions == [quality |-> 0, workers |-> 0, loop |-> 0]

-----------------------------------------------------------------------------
(* Bit operations of 32-bit integers.  Every shift of the encoder stays    *)
(* below 2^31 (TLC's integers are 32 bits wide and report an overflow).    *)

Pow2(n) == 2 ^ n

\* x & 0xFF (two's complement for negative x: TLA+ % is non-negative)
And255(x) == x % 256

\* x >> n (arithmetic shift: floor division)
Shr(x, n) == x \div Pow2(n)

\* x << n
Shl(x, n) == x * Pow2(n)

\* a | b, bit by bit
RECURSIVE BitOr(_, _)
BitOr(a, b) ==
    IF a = 0 THEN b
    ELSE IF b = 0 THEN a
    ELSE (IF a % 2 = 1 \/ b % 2 = 1 THEN 1 ELSE 0) + 2 * BitOr(a \div 2, b \div 2)

\* a faulty variant of the mask: all eight bits are kept
AndFF(x) == x % 256

\* x & 0xF8 for a channel value 0..255
AndF8(x) == (x % 256) - (x % 8)

\* Sequencing: v is evaluated once, to a value, and then F is applied to it
\* (a statement that assigns a local, followed by the statements that read it).
Bind(v, F(_)) == CHOOSE r \in {F(y) : y \in {v}} : TRUE

-----------------------------------------------------------------------------
(* GIFEncoder.writeByte / writeShort / writeString, as byte sequences      *)
(* appended to this.data.                                                  *)

WriteByte(b) == <<And255(b)>>

WriteShort(s) == WriteByte(And255(s)) \o WriteByte(And255(Shr(s, 8)))

\* 'GIF89a'.charCodeAt(i)
StrGIF89a == <<71, 73, 70, 56, 57, 97>>

\* 'NETSCAPE2.0'.charCodeAt(i)
StrNETSCAPE == <<78, 69, 84, 83, 67, 65, 80, 69, 50, 46, 48>>

\* start(): the buffer it leaves
StartBytes(w, h) ==
    StrGIF89a \o WriteShort(w) \o WriteShort(h)
    \o WriteByte(112) \o WriteByte(0) \o WriteByte(0)
    \o WriteByte(33) \o WriteByte(255) \o WriteByte(11)
    \o StrNETSCAPE
    \o WriteByte(3) \o WriteByte(1) \o WriteShort(0) \o WriteByte(0)

-----------------------------------------------------------------------------
(* addFrame: colour quantizer and pixel indexer.                           *)
(* A pixel is <<r, g, b>>; alpha is never read.                            *)

\* key = (r << 16) | (g << 8) | b  with r, g, b masked by 0xF8
KeyOf(px) ==
    BitOr(BitOr(Shl(AndF8(px[1]), 16), Shl(AndF8(px[2]), 8)), AndF8(px[3]))

\* (c >> 16) & 0xFF, (c >> 8) & 0xFF, c & 0xFF
KeyRGB(c) == <<And255(Shr(c, 16)), And255(Shr(c, 8)), And255(c)>>

\* the key of every pixel
KeysOf(pixels) == [i \in 1..Len(pixels) |-> KeyOf(pixels[i])]

CountKeys(key) ==
    [k \in {key[i] : i \in 1..Len(key)} |->
        Cardinality({i \in 1..Len(key) : key[i] = k})]

\* colorCounts: quantized key -> number of pixels
ColorCounts(pixels) == Bind(KeysOf(pixels), LAMBDA key : CountKeys(key))

\* a faulty variant of the sort: ascending count, a.count - b.count
SortRankAscending(cc) ==
    [k \in DOMAIN cc |->
        Cardinality({j \in DOMAIN cc : cc[j] < cc[k] \/ (cc[j] = cc[k] /\ j < k)})]

\* the position of each key after Object.keys (integer keys come in ascending
\* order) and a stable sort by descending count
SortRank(cc) ==
    [k \in DOMAIN cc |->
        Cardinality({j \in DOMAIN cc : cc[j] > cc[k] \/ (cc[j] = cc[k] /\ j < k)})]

\* a faulty variant of the slice: the last key is dropped, slice(0, -1)
TopSliceShort(cc, rank) ==
    [i \in 1..((IF Cardinality(DOMAIN cc) < 256 THEN Cardinality(DOMAIN cc) ELSE 256) - 1) |->
        CHOOSE k \in DOMAIN cc : rank[k] = i - 1]

\* a faulty variant of the slice: slice(0, 257)
TopSliceWide(cc, rank) ==
    [i \in 1..(IF Cardinality(DOMAIN cc) < 257 THEN Cardinality(DOMAIN cc) ELSE 257) |->
        CHOOSE k \in DOMAIN cc : rank[k] = i - 1]

\* .slice(0, 256)
TopSlice(cc, rank) ==
    [i \in 1..(IF Cardinality(DOMAIN cc) < 256 THEN Cardinality(DOMAIN cc) ELSE 256) |->
        CHOOSE k \in DOMAIN cc : rank[k] = i - 1]

SortCounts(cc) == Bind(SortRank(cc), LAMBDA rank : TopSlice(cc, rank))

\* sortedColors: the retained keys, most frequent first
SortedColors(pixels) == Bind(ColorCounts(pixels), LAMBDA cc : SortCounts(cc))

\* palette: three bytes per retained key in sort order, then zeros up to 256 * 3
Palette(sorted) ==
    [i \in 1..(256 * 3) |->
        IF i <= 3 * Len(sorted)
        THEN KeyRGB(sorted[((i - 1) \div 3) + 1])[((i - 1) % 3) + 1]
        ELSE 0]

\* a faulty variant of colorMap: indices counted from 1
ColorMapFromOne(sorted) ==
    [k \in {sorted[i] : i \in 1..Len(sorted)} |->
        CHOOSE i \in 1..Len(sorted) : sorted[i] = k]

\* colorMap: retained key -> palette index (0-based)
ColorMap(sorted) ==
    [k \in {sorted[i] : i \in 1..Len(sorted)} |->
        (CHOOSE i \in 1..Len(sorted) : sorted[i] = k) - 1]

SqDist(r, g, b, c) ==
    LET p == KeyRGB(c)
    IN  (r - p[1]) * (r - p[1]) + (g - p[2]) * (g - p[2]) + (b - p[3]) * (b - p[3])

\* a faulty variant of the loop body: if (dist <= bestDist) { ... }
ClosestIterLast(sorted, j, r, g, b, best) ==
    LET dist == SqDist(r, g, b, sorted[j + 1])
    IN  IF best[1] < 0 \/ dist <= best[1] THEN <<dist, j>> ELSE best

\* one iteration of the "find closest color" loop on best = <<bestDist, bestIdx>>
\* (bestDist = -1 stands for Infinity): if (dist < bestDist) { ... }
ClosestIter(sorted, j, r, g, b, best) ==
    LET dist == SqDist(r, g, b, sorted[j + 1])
    IN  IF best[1] < 0 \/ dist < best[1] THEN <<dist, j>> ELSE best

\* iterations j = from .. to - 1 of that loop, in order (the range is halved
\* to keep the evaluation shallow)
RECURSIVE ClosestLoop(_, _, _, _, _, _, _)
ClosestLoop(sorted, from, to, r, g, b, best) ==
    IF from >= to THEN best
    ELSE IF to = from + 1 THEN ClosestIter(sorted, from, r, g, b, best)
    ELSE LET mid == (from + to) \div 2
         IN  Bind(ClosestLoop(sorted, from, mid, r, g, b, best),
                  LAMBDA first : ClosestLoop(sorted, mid, to, r, g, b, first))

\* bestDist = Infinity, bestIdx = 0; for (j = 0; j < sortedColors.length; j++)
Closest(sorted, r, g, b) ==
    ClosestLoop(sorted, 0, Len(sorted), r, g, b, <<-1, 0>>)[2]

\* the index of one pixel; r, g, b are the masked channels, as in the source
PixelIndex(px, sorted, cmap) ==
    LET r   == AndF8(px[1])
        g   == AndF8(px[2])
        b   == AndF8(px[3])
        key == KeyOf(px)
    IN  IF key \in DOMAIN cmap THEN cmap[key]
        ELSE Closest(sorted, r, g, b)

IndexedWith(pixels, sorted, cmap) ==
    [i \in 1..Len(pixels) |-> PixelIndex(pixels[i], sorted, cmap) % 256]

\* indexed: Uint8Array(width * height), one store per pixel
Indexed(pixels, sorted) ==
    Bind(ColorMap(sorted), LAMBDA cmap : IndexedWith(pixels, sorted, cmap))

-----------------------------------------------------------------------------
(* lzwEncode.  Its locals are the record s:                                 *)
(*   codeSize, nextCode, dict, buffer, bufferLen, output, prev, i          *)
(* and widths, the bit width each emitted code was written with (the       *)
(* value of codeSize when emit ran), in emission order, and codes, the     *)
(* argument of each call of emit, in the same order.                       *)

clearCode == 256
eoiCode == 257
DictLimit == 4096

\* while (bufferLen >= 8) { output.push(buffer & 0xFF); buffer >>= 8; bufferLen -= 8 }
RECURSIVE Drain(_)
Drain(s) ==
    IF s.bufferLen >= 8
    THEN Drain([s EXCEPT !.output = Append(@, And255(s.buffer)),
                         !.buffer = Shr(@, 8),
                         !.bufferLen = @ - 8])
    ELSE s

\* a faulty variant of emit: buffer = (buffer << codeSize) | code, the new
\* code below the bits already buffered
EmitBelow(s, code) ==
    Drain([s EXCEPT !.buffer = BitOr(Shl(@, s.codeSize), code),
                    !.bufferLen = @ + s.codeSize,
                    !.widths = Append(@, s.codeSize),
                    !.codes = Append(@, code)])

\* emit(code): buffer |= code << bufferLen; bufferLen += codeSize; drain
Emit(s, code) ==
    Drain([s EXCEPT !.buffer = BitOr(@, Shl(code, s.bufferLen)),
                    !.bufferLen = @ + s.codeSize,
                    !.widths = Append(@, s.codeSize),
                    !.codes = Append(@, code)])

\* a faulty variant of the widening test: nextCode >= (1 << codeSize)
MustWidenEarly(nextCode, codeSize) == nextCode >= Shl(1, codeSize) /\ codeSize < 12

\* nextCode > (1 << codeSize) && codeSize < 12
MustWiden(nextCode, codeSize) == nextCode > Shl(1, codeSize) /\ codeSize < 12

\* the locals after `emit(clearCode); var prev = pixels[0];`, i = 1
LzwEnter(pixels) ==
    LET s0 == [codeSize |-> 9, nextCode |-> 258, dict |-> <<>>,
               buffer |-> 0, bufferLen |-> 0, output |-> <<>>,
               prev |-> 0, i |-> 1, widths |-> <<>>, codes |-> <<>>]
    IN  [Emit(s0, clearCode) EXCEPT !.prev = pixels[1]]

\* a faulty variant of the else branch: dict[key] = ++nextCode
LzwMissPreInc(e, key, curr) ==
    IF e.nextCode < DictLimit
    THEN [e EXCEPT !.dict = (key :> (e.nextCode + 1)) @@ @,
                   !.nextCode = @ + 1,
                   !.codeSize = IF MustWiden(e.nextCode + 1, @) THEN @ + 1 ELSE @,
                   !.prev = curr,
                   !.i = @ + 1]
    ELSE [Emit(e, clearCode) EXCEPT !.dict = <<>>,
                                     !.codeSize = 9,
                                     !.nextCode = 258,
                                     !.prev = curr,
                                     !.i = @ + 1]

\* the else branch after emit(prev): e holds the locals after that emit
LzwMiss(e, key, curr) ==
    IF e.nextCode < DictLimit
    THEN [e EXCEPT !.dict = (key :> e.nextCode) @@ @,
                   !.nextCode = @ + 1,
                   !.codeSize = IF MustWiden(e.nextCode + 1, @) THEN @ + 1 ELSE @,
                   !.prev = curr,
                   !.i = @ + 1]
    ELSE [Emit(e, clearCode) EXCEPT !.dict = <<>>,
                                     !.codeSize = 9,
                                     !.nextCode = 258,
                                     !.prev = curr,
                                     !.i = @ + 1]

\* one iteration of `for (i = 1; i < pixels.length; i++)`; pixels[i] is
\* pixels[s.i + 1] in a 1-based sequence
LzwIter(s, pixels) ==
    LET curr == pixels[s.i + 1]
        key  == <<s.prev, curr>>
    IN  IF key \in DOMAIN s.dict
        THEN [s EXCEPT !.prev = s.dict[key], !.i = @ + 1]
        ELSE Bind(Emit(s, s.prev), LAMBDA e : LzwMiss(e, key, curr))

\* a faulty variant of the flush: the buffer is pushed although it is empty
LzwPadAlways(e) == [e EXCEPT !.output = Append(@, And255(e.buffer))]

\* if (bufferLen > 0) output.push(buffer & 0xFF)
LzwPad(e) ==
    IF e.bufferLen > 0
    THEN [e EXCEPT !.output = Append(@, And255(e.buffer))]
    ELSE e

\* a faulty variant of the end of lzwEncode: emit(prev) is left out
LzwFlushNoPrev(s) == Bind(Emit(s, eoiCode), LAMBDA e2 : LzwPad(e2))

\* the end of lzwEncode: emit(prev); emit(eoiCode); flush of the bit buffer
LzwFlush(s) ==
    Bind(Emit(s, s.prev), LAMBDA e1 : Bind(Emit(e1, eoiCode), LAMBDA e2 : LzwPad(e2)))

Min(a, b) == IF a < b THEN a ELSE b

\* a faulty variant of the sub-block loop: i <= output.length
RECURSIVE SubBlocksOver(_, _)
SubBlocksOver(output, i) ==
    IF i > Len(output) THEN <<>>
    ELSE LET chunk == SubSeq(output, i + 1, Min(i + 255, Len(output)))
         IN  WriteByte(Len(chunk)) \o chunk \o SubBlocksOver(output, i + 255)

\* for (i = 0; i < output.length; i += 255) { writeByte(chunk.length); chunk bytes }
RECURSIVE SubBlocks(_, _)
SubBlocks(output, i) ==
    IF i >= Len(output) THEN <<>>
    ELSE LET chunk == SubSeq(output, i + 1, Min(i + 255, Len(output)))
         IN  WriteByte(Len(chunk)) \o chunk \o SubBlocks(output, i + 255)

\* n consecutive iterations of the main loop (the count is halved to keep the
\* evaluation shallow)
RECURSIVE LzwIters(_, _, _)
LzwIters(s, pixels, n) ==
    IF n <= 0 THEN s
    ELSE IF n = 1 THEN LzwIter(s, pixels)
    ELSE Bind(LzwIters(s, pixels, n \div 2),
              LAMBDA half : LzwIters(half, pixels, n - (n \div 2)))

\* the whole loop: for (i = 1; i < pixels.length; i++)
LzwLoop(s, pixels) == LzwIters(s, pixels, Len(pixels) - s.i)

\* the locals when lzwEncode has packed its last byte
LzwPacked(pixels) ==
    Bind(LzwEnter(pixels),
         LAMBDA s0 : Bind(LzwLoop(s0, pixels), LAMBDA s : LzwFlush(s)))

\* lzwEncode(pixels): the bytes it appends to this.data
LzwEncode(pixels) == Bind(LzwPacked(pixels), LAMBDA s : SubBlocks(s.output, 0))

-----------------------------------------------------------------------------
(* addFrame(ctx, delay): the bytes it appends to this.data.                *)

\* a faulty variant of the conversion: Math.floor(delay / 10)
RoundDiv10Floor(delay) == delay \div 10

\* Math.round(delay / 10) for an integer delay (halves round up)
RoundDiv10(delay) == (delay + 5) \div 10

\* graphics control extension
GraphicControl(delay) ==
    WriteByte(33) \o WriteByte(249) \o WriteByte(4) \o WriteByte(0)
    \o WriteShort(RoundDiv10(delay)) \o WriteByte(0) \o WriteByte(0)

\* a faulty variant of the descriptor: height written before width
ImageDescriptorSwapped(w, h) ==
    WriteByte(44) \o WriteShort(0) \o WriteShort(0)
    \o WriteShort(h) \o WriteShort(w) \o WriteByte(135)

\* image descriptor with local color table
ImageDescriptor(w, h) ==
    WriteByte(44) \o WriteShort(0) \o WriteShort(0)
    \o WriteShort(w) \o WriteShort(h) \o WriteByte(135)

\* the bytes written once sortedColors is known
FrameBytes(w, h, pixels, delay, sorted) ==
    GraphicControl(delay) \o ImageDescriptor(w, h)
    \o Palette(sorted)
    \o WriteByte(8)
    \o Bind(Indexed(pixels, sorted), LAMBDA indexed : LzwEncode(indexed))
    \o WriteByte(0)

FrameBlock(w, h, pixels, delay) ==
    Bind(SortedColors(pixels), LAMBDA sorted : FrameBytes(w, h, pixels, delay, sorted))

\* finish(): the trailer
Trailer == 59

-----------------------------------------------------------------------------
(* Reference GIF LZW decoder, minimum code size 8.  It reads the payload   *)
(* bit by bit with its own code width: it adds one table entry per code    *)
(* read after the first one following a clear, and widens when its next    *)
(* free code reaches 2^width, up to 12 bits.  It stops at the end code, at *)
(* an invalid code, or when fewer bits than its width remain.              *)

\* the payload of a run of sub-blocks starting at byte offset pos (0-based),
\* up to a zero length byte or the end of the bytes
RECURSIVE Unblock(_, _)
Unblock(bytes, pos) ==
    IF pos >= Len(bytes) \/ bytes[pos + 1] = 0 THEN <<>>
    ELSE SubSeq(bytes, pos + 2, Min(pos + 1 + bytes[pos + 1], Len(bytes)))
         \o Unblock(bytes, pos + 1 + bytes[pos + 1])

ByteAt(bytes, k) == IF k + 1 <= Len(bytes) THEN bytes[k + 1] ELSE 0

\* w bits starting at bit position pos, least significant bit first
ReadBits(bytes, pos, w) ==
    LET k == pos \div 8
        v == ByteAt(bytes, k) + 256 * ByteAt(bytes, k + 1) + 65536 * ByteAt(bytes, k + 2)
    IN  (v \div Pow2(pos % 8)) % Pow2(w)

RECURSIVE Expand(_, _)
Expand(table, code) ==
    IF code < 256 THEN <<code>>
    ELSE Expand(table, table[code][1]) \o <<table[code][2]>>

RECURSIVE FirstOf(_, _)
FirstOf(table, code) ==
    IF code < 256 THEN code ELSE FirstOf(table, table[code][1])

DecEnter(payload) ==
    [payload |-> payload, pos |-> 0, width |-> 9, next |-> 258, table |-> <<>>,
     prevCode |-> -1, out |-> <<>>, widths |-> <<>>, status |-> "run"]

\* the table entry added after a data code, and the widening that follows
DecGrow(d, entry) ==
    IF d.next >= 4096 THEN d
    ELSE LET nx == d.next + 1
         IN  [d EXCEPT !.table = (d.next :> entry) @@ @,
                       !.next = nx,
                       !.width = IF nx = Pow2(@) /\ @ < 12 THEN @ + 1 ELSE @]

DecStep(d) ==
    LET r == [d EXCEPT !.widths = Append(@, d.width)]
    IN  IF 8 * Len(d.payload) - d.pos < d.width
        THEN [r EXCEPT !.status = "exhausted"]
        ELSE LET code == ReadBits(d.payload, d.pos, d.width)
                 q    == [r EXCEPT !.pos = @ + d.width]
             IN  IF code = 256
                 THEN [q EXCEPT !.table = <<>>, !.width = 9, !.next = 258,
                                !.prevCode = -1]
                 ELSE IF code = 257
                 THEN [q EXCEPT !.status = "eoi"]
                 ELSE IF d.prevCode = -1
                 THEN IF code < 256
                      THEN [q EXCEPT !.out = Append(@, code), !.prevCode = code]
                      ELSE [q EXCEPT !.status = "bad"]
                 ELSE IF code < 256 \/ code \in DOMAIN d.table
                 THEN [DecGrow(q, <<d.prevCode, FirstOf(d.table, code)>>)
                          EXCEPT !.out = @ \o Expand(d.table, code),
                                 !.prevCode = code]
                 ELSE IF code = d.next /\ d.next < 4096
                 THEN LET f == FirstOf(d.table, d.prevCode)
                      IN  [DecGrow(q, <<d.prevCode, f>>)
                              EXCEPT !.out = @ \o Expand(d.table, d.prevCode) \o <<f>>,
                                     !.prevCode = code]
                 ELSE [q EXCEPT !.status = "bad"]

\* up to n reads, stopping where the decoder stops
RECURSIVE DecRun(_, _)
DecRun(d, n) ==
    IF n <= 0 \/ d.status # "run" THEN d
    ELSE IF n = 1 THEN DecStep(d)
    ELSE Bind(DecRun(d, n \div 2), LAMBDA half : DecRun(half, n - (n \div 2)))

\* the decoder run to its end on a payload: no code is narrower than 9 bits
Decode(payload) ==
    Bind(DecEnter(payload), LAMBDA d : DecRun(d, ((8 * Len(payload)) \div 9) + 1))

-----------------------------------------------------------------------------
(* lzwEncode called on an index plane, step by step, followed by the       *)
(* reference decoder reading what it wrote.                                *)

LzIdle == [codeSize |-> 9, nextCode |-> 258, dict |-> <<>>,
           buffer |-> 0, bufferLen |-> 0, output |-> <<>>,
           prev |-> 0, i |-> 0, widths |-> <<>>, codes |-> <<>>]

DecIdle == DecEnter(<<>>)

\* index planes without a repeated pair of neighbours: every loop iteration
\* registers a new dictionary entry
WalkAt(k) == ((k % 256) * (2 * (k \div 256) + 1)) % 256

Walk(n) == [i \in 1..n |-> WalkAt(i - 1)]

\* the number of data codes after which a decoder widens from w bits
CodesToWiden(w) == Pow2(w) - 257

\* the number of plane values after which the dictionary is full and cleared
FillLen == (DictLimit - 258) + 1

MaxShort == 3
ShortValues == {0, 1, 255}

ShortPlanes == UNION {[1..n -> ShortValues] : n \in 1..MaxShort}

MaxRun == 40

\* runs of one value: the dictionary entries chain, codes stand for long runs
Runs == {[i \in 1..n |-> 7] : n \in 1..MaxRun}

Planes ==
    ShortPlanes \cup Runs
    \cup {Walk(CodesToWiden(9) - 1), Walk(CodesToWiden(9)), Walk(CodesToWiden(10)),
          Walk(CodesToWiden(11)), Walk(FillLen + CodesToWiden(9)),
          Walk(2 * FillLen + 2)}

InitLzw ==
    /\ plane \in Planes
    /\ width = Len(plane)
    /\ height = 1
    /\ data = <<>>
    /\ canvas = <<>>
    /\ calls = <<>>
    /\ pc = "call"
    /\ lz = LzIdle
    /\ dec = DecIdle
    /\ twin = <<>>
    /\ opts = NoOptions
    /\ frames = <<>>
    /\ gif = Null
    /\ bounds = NoBounds
    /\ placedRegions = <<>>
    /\ anim = NoAnimation
    /\ timers = {}
    /\ drv = NoDriver
    /\ ui = NoPage

\* lines 123-143: locals, emit(clearCode), prev = pixels[0]
LzwCall ==
    /\ pc = "call"
    /\ lz' = LzwEnter(plane)
    /\ pc' = "loop"
    /\ UNCHANGED <<anim, timers, drv, ui, bounds, placedRegions, opts, frames, gif, twin, width, height, data, canvas, calls, plane, dec>>

\* one iteration of the main loop
LzwStep ==
    /\ pc = "loop"
    /\ lz.i < Len(plane)
    /\ lz' = LzwIter(lz, plane)
    /\ UNCHANGED <<anim, timers, drv, ui, bounds, placedRegions, opts, frames, gif, twin, width, height, data, canvas, calls, pc, plane, dec>>

\* the loop is over: final emits, flush, sub-blocks written to this.data
LzwReturn ==
    /\ pc = "loop"
    /\ lz.i >= Len(plane)
    /\ lz' = LzwFlush(lz)
    /\ data' = data \o SubBlocks(lz'.output, 0)
    /\ pc' = "written"
    /\ UNCHANGED <<anim, timers, drv, ui, bounds, placedRegions, opts, frames, gif, twin, width, height, canvas, calls, plane, dec>>

\* n iterations of the main loop in a row, from an iteration count that is a
\* multiple of n: the states it leads to are those LzwStep reaches one
\* iteration at a time
BurstShort == 16
BurstLong == 256

LzwBurst(n) ==
    /\ pc = "loop"
    /\ (lz.i - 1) % n = 0
    /\ lz.i + n <= Len(plane)
    /\ lz' = LzwIters(lz, plane, n)
    /\ UNCHANGED <<anim, timers, drv, ui, bounds, placedRegions, opts, frames, gif, twin, width, height, data, canvas, calls, pc, plane, dec>>

NextLzw ==
    \/ LzwCall
    \/ LzwStep
    \/ \E n \in {BurstShort, BurstLong} : LzwBurst(n)
    \/ LzwReturn

SpecLzw == InitLzw /\ [][NextLzw]_vars

-----------------------------------------------------------------------------
(* lzwEncode as one call, followed by a decoder reading what it wrote.     *)

\* lzwEncode(plane), from entry to return
Encode ==
    /\ pc = "call"
    /\ lz' = LzwPacked(plane)
    /\ data' = data \o SubBlocks(lz'.output, 0)
    /\ pc' = "written"
    /\ UNCHANGED <<anim, timers, drv, ui, bounds, placedRegions, opts, frames, gif, twin, width, height, canvas, calls, plane, dec>>

\* a decoder reads the sub-blocks to the end
DecodeAll ==
    /\ pc = "written"
    /\ dec' = Decode(Unblock(data, 0))
    /\ pc' = "decode"
    /\ UNCHANGED <<anim, timers, drv, ui, bounds, placedRegions, opts, frames, gif, twin, width, height, data, canvas, calls, plane, lz>>

NextCodec == Encode \/ DecodeAll

SpecCodec == InitLzw /\ [][NextCodec]_vars


-----------------------------------------------------------------------------
(* The encoder session: new GIFEncoder(width, height), then start,         *)
(* addFrame and finish called in any order.  canvas is the pixel array of  *)
(* the ctx handed to the latest addFrame; calls is the history of the      *)
(* calls made.                                                             *)

MaxCalls == 4

Black == <<0, 0, 0>>
White == <<255, 255, 255>>

\* distinct quantized colours, ascending in their key with k
Shade(k) == <<8 * (k \div 32), 8 * (k % 32), 0>>

\* a frame of 259 pixels with 257 quantized keys: two keys drawn twice, 254
\* drawn once, and one pixel (71, 0, 8) whose key (64, 0, 8) is the largest of
\* those drawn once, so that it is the one key left out of the palette
CrowdedRow ==
    <<<<64, 0, 0>>, <<64, 0, 0>>, <<72, 0, 8>>, <<72, 0, 8>>>>
    \o [k \in 1..254 |-> Shade(k - 1)]
    \o <<<<71, 0, 8>>>>

\* a frame of n pixels, all of different keys, in key order: its index plane
\* is 0, 1, ..., n - 1
DistinctRow(n) == [k \in 1..n |-> Shade(k - 1)]

\* 224 distinct neighbours pack into exactly 255 bytes; 255 of them end the
\* code stream on the 255th data code
RowLengths == {224, CodesToWiden(9)}

Dims == {<<2, 1>>, <<Len(CrowdedRow), 1>>} \cup {<<n, 1>> : n \in RowLengths}

\* the (frame, delay) pairs addFrame is called with, per canvas size
Inputs(w, h) ==
    IF w * h = 2
    THEN ([1..2 -> {Black, White}] \X {45}) \cup {<<<<White, Black>>, 0>>}
    ELSE IF w * h \in RowLengths THEN {<<DistinctRow(w * h), 45>>}
    ELSE {<<CrowdedRow, 45>>}

Init ==
    /\ \E d \in Dims : width = d[1] /\ height = d[2]
    /\ data = <<>>
    /\ canvas = [i \in 1..(width * height) |-> Black]
    /\ calls = <<>>
    /\ pc = "idle"
    /\ plane = <<>>
    /\ lz = LzIdle
    /\ dec = DecIdle
    /\ twin = <<>>
    /\ opts = NoOptions
    /\ frames = <<>>
    /\ gif = Null
    /\ bounds = NoBounds
    /\ placedRegions = <<>>
    /\ anim = NoAnimation
    /\ timers = {}
    /\ drv = NoDriver
    /\ ui = NoPage

\* the call made last, "new" before any call
LastOp == IF calls = <<>> THEN "new" ELSE calls[Len(calls)][1]

\* a faulty variant of start(): this.data is not reset
StartAppend ==
    /\ Len(calls) < MaxCalls
    /\ data' = data \o StartBytes(width, height)
    /\ calls' = Append(calls, <<"start", 0>>)
    /\ UNCHANGED <<anim, timers, drv, ui, bounds, placedRegions, opts, frames, gif, twin, width, height, canvas, pc, plane, lz, dec>>

\* start()
Start ==
    /\ Len(calls) < MaxCalls
    /\ data' = StartBytes(width, height)
    /\ calls' = Append(calls, <<"start", 0>>)
    /\ UNCHANGED <<anim, timers, drv, ui, bounds, placedRegions, opts, frames, gif, twin, width, height, canvas, pc, plane, lz, dec>>

\* a faulty variant of addFrame(): the block is written before the old bytes
AddFrameFirst(pixels, delay) ==
    /\ Len(calls) < MaxCalls
    /\ canvas' = pixels
    /\ data' = FrameBlock(width, height, pixels, delay) \o data
    /\ calls' = Append(calls, <<"addFrame", delay>>)
    /\ UNCHANGED <<anim, timers, drv, ui, bounds, placedRegions, opts, frames, gif, twin, width, height, pc, plane, lz, dec>>

\* addFrame(imageData, delay): imageData.data holds the pixels
AddFrame(pixels, delay) ==
    /\ Len(calls) < MaxCalls
    /\ canvas' = pixels
    /\ data' = data \o FrameBlock(width, height, pixels, delay)
    /\ calls' = Append(calls, <<"addFrame", delay>>)
    /\ UNCHANGED <<anim, timers, drv, ui, bounds, placedRegions, opts, frames, gif, twin, width, height, pc, plane, lz, dec>>

\* a faulty variant of finish(): no trailer is written
FinishSilent ==
    /\ Len(calls) < MaxCalls
    /\ data' = data
    /\ calls' = Append(calls, <<"finish", 0>>)
    /\ UNCHANGED <<anim, timers, drv, ui, bounds, placedRegions, opts, frames, gif, twin, width, height, canvas, pc, plane, lz, dec>>

\* a faulty variant of finish(): a finished buffer gets no second trailer
FinishOnce ==
    /\ Len(calls) < MaxCalls
    /\ data' = IF LastOp = "finish" THEN data ELSE data \o WriteByte(Trailer)
    /\ calls' = Append(calls, <<"finish", 0>>)
    /\ UNCHANGED <<anim, timers, drv, ui, bounds, placedRegions, opts, frames, gif, twin, width, height, canvas, pc, plane, lz, dec>>

\* finish()
Finish ==
    /\ Len(calls) < MaxCalls
    /\ data' = data \o WriteByte(Trailer)
    /\ calls' = Append(calls, <<"finish", 0>>)
    /\ UNCHANGED <<anim, timers, drv, ui, bounds, placedRegions, opts, frames, gif, twin, width, height, canvas, pc, plane, lz, dec>>

Next ==
    \/ Start
    \/ \E in \in Inputs(width, height) : AddFrame(in[1], in[2])
    \/ Finish

Spec == Init /\ [][Next]_vars

-----------------------------------------------------------------------------
(* Two encoders of the same width and height, given the same calls.        *)

MaxTwinCalls == 3

\* the other order a sort may leave keys of equal count in
RankTiesDown(cc) ==
    [k \in DOMAIN cc |->
        Cardinality({j \in DOMAIN cc : cc[j] > cc[k] \/ (cc[j] = cc[k] /\ j > k)})]

\* a faulty variant of addFrame: keys of equal count come in either order
FrameBlocksAnyTies(w, h, pixels, delay) ==
    Bind(ColorCounts(pixels), LAMBDA cc :
        {FrameBytes(w, h, pixels, delay, sorted) :
            sorted \in {TopSlice(cc, SortRank(cc)), TopSlice(cc, RankTiesDown(cc))}})

\* the blocks a call addFrame(pixels, delay) can append: addFrame reads
\* nothing but its arguments, width and height, and Object.keys and sort
\* leave the keys in one order
FrameBlocks(w, h, pixels, delay) == {FrameBlock(w, h, pixels, delay)}

InitTwin ==
    /\ \E d \in Dims : width = d[1] /\ height = d[2]
    /\ data = <<>>
    /\ canvas = [i \in 1..(width * height) |-> Black]
    /\ calls = <<>>
    /\ pc = "idle"
    /\ plane = <<>>
    /\ lz = LzIdle
    /\ dec = DecIdle
    /\ twin = <<>>
    /\ opts = NoOptions
    /\ frames = <<>>
    /\ gif = Null
    /\ bounds = NoBounds
    /\ placedRegions = <<>>
    /\ anim = NoAnimation
    /\ timers = {}
    /\ drv = NoDriver
    /\ ui = NoPage

\* start() on both encoders
TwinStart ==
    /\ Len(calls) < MaxTwinCalls
    /\ data' = StartBytes(width, height)
    /\ twin' = StartBytes(width, height)
    /\ calls' = Append(calls, <<"start", 0>>)
    /\ UNCHANGED <<anim, timers, drv, ui, bounds, placedRegions, opts, frames, gif, width, height, canvas, pc, plane, lz, dec>>

\* addFrame(pixels, delay) on both encoders
TwinAddFrame(pixels, delay) ==
    /\ Len(calls) < MaxTwinCalls
    /\ canvas' = pixels
    /\ \E block \in FrameBlocks(width, height, pixels, delay) : data' = data \o block
    /\ \E block \in FrameBlocks(width, height, pixels, delay) : twin' = twin \o block
    /\ calls' = Append(calls, <<"addFrame", delay>>)
    /\ UNCHANGED <<anim, timers, drv, ui, bounds, placedRegions, opts, frames, gif, width, height, pc, plane, lz, dec>>

\* finish() on both encoders
TwinFinish ==
    /\ Len(calls) < MaxTwinCalls
    /\ data' = data \o WriteByte(Trailer)
    /\ twin' = twin \o WriteByte(Trailer)
    /\ calls' = Append(calls, <<"finish", 0>>)
    /\ UNCHANGED <<anim, timers, drv, ui, bounds, placedRegions, opts, frames, gif, width, height, canvas, pc, plane, lz, dec>>

NextTwin ==
    \/ TwinStart
    \/ \E in \in Inputs(width, height) : TwinAddFrame(in[1], in[2])
    \/ TwinFinish

SpecTwin == InitTwin /\ [][NextTwin]_vars

-----------------------------------------------------------------------------
(* addFrame on a new encoder, one frame out of many.                       *)

MaxTone == 3

\* colours for small frames: black, white, two colours that are not
\* multiples of 8 (the first has black's key), and shades
Tones == {Black, White, <<7, 7, 7>>, <<255, 0, 1>>} \cup {Shade(k) : k \in 1..(MaxTone - 2)}

\* 256 keys, three of them with more than one pixel
BusyRow == DistinctRow(256) \o <<Shade(200), Shade(9), Shade(200), Shade(5)>>

FrameDims == {<<2, 2>>, <<3, 1>>, <<256, 1>>, <<Len(CrowdedRow), 1>>, <<Len(BusyRow), 1>>}

Frames(w, h) ==
    IF w * h = 4 THEN [1..4 -> {Black, White}]
    ELSE IF w * h = 3 THEN [1..3 -> Tones]
    ELSE IF w * h = 256 THEN {DistinctRow(256)}
    ELSE IF w * h = Len(CrowdedRow) THEN {CrowdedRow}
    ELSE {BusyRow}

InitFrame ==
    /\ \E d \in FrameDims : width = d[1] /\ height = d[2]
    /\ data = <<>>
    /\ canvas = [i \in 1..(width * height) |-> Black]
    /\ calls = <<>>
    /\ pc = "idle"
    /\ plane = <<>>
    /\ lz = LzIdle
    /\ dec = DecIdle
    /\ twin = <<>>
    /\ opts = NoOptions
    /\ frames = <<>>
    /\ gif = Null
    /\ bounds = NoBounds
    /\ placedRegions = <<>>
    /\ anim = NoAnimation
    /\ timers = {}
    /\ drv = NoDriver
    /\ ui = NoPage

\* the first call on a new encoder is addFrame(pixels, 45)
OneFrame(pixels) == calls = <<>> /\ AddFrame(pixels, 45)

NextFrame == \E pixels \in Frames(width, height) : OneFrame(pixels)

SpecFrame == InitFrame /\ [][NextFrame]_vars

-----------------------------------------------------------------------------
(* addFrame with one frame and many delays.                                *)

MaxDelay == 120

\* the delays tried, in ms: the small ones, from those that round to -0, and
\* the ones around a carry into the high byte and around the largest value
Delays ==
    (-5..MaxDelay) \cup (2545..2565) \cup (655345..655354)

InitDelay ==
    /\ width = 2
    /\ height = 1
    /\ data = <<>>
    /\ canvas = <<Black, Black>>
    /\ calls = <<>>
    /\ pc = "idle"
    /\ plane = <<>>
    /\ lz = LzIdle
    /\ dec = DecIdle
    /\ twin = <<>>
    /\ opts = NoOptions
    /\ frames = <<>>
    /\ gif = Null
    /\ bounds = NoBounds
    /\ placedRegions = <<>>
    /\ anim = NoAnimation
    /\ timers = {}
    /\ drv = NoDriver
    /\ ui = NoPage

\* the first call on a new encoder is addFrame(frame, delay)
FirstFrame(delay) == calls = <<>> /\ AddFrame(<<Black, White>>, delay)

NextDelay == \E delay \in Delays : FirstFrame(delay)

SpecDelay == InitDelay /\ [][NextDelay]_vars

-----------------------------------------------------------------------------
(* Reading the buffer back: the layout a GIF reader expects.               *)

\* the 16-bit little-endian number at byte offset pos (0-based)
U16(bytes, pos) == bytes[pos + 1] + 256 * bytes[pos + 2]

\* the length bytes of the sub-blocks starting at offset pos, up to the first
\* zero length byte; -1 is appended when the bytes end before one is met
RECURSIVE BlockLens(_, _)
BlockLens(bytes, pos) ==
    IF pos >= Len(bytes) THEN <<-1>>
    ELSE IF bytes[pos + 1] = 0 THEN <<>>
    ELSE <<bytes[pos + 1]>> \o BlockLens(bytes, pos + 1 + bytes[pos + 1])

RECURSIVE SumSeq(_)
SumSeq(s) == IF s = <<>> THEN 0 ELSE Head(s) + SumSeq(Tail(s))

\* offsets inside a frame block: graphic control extension (8 bytes), image
\* descriptor (10 bytes), local color table, minimum code size, sub-blocks
TableAt == 8 + 10
TableLen == 256 * 3
CodeSizeAt == TableAt + TableLen
BlocksAt == CodeSizeAt + 1

\* the offset just after the frame block that starts at offset pos, or -1 when
\* the bytes at pos are not a complete frame block for a w x h canvas
FrameEnd(bytes, pos, w, h) ==
    IF Len(bytes) < pos + BlocksAt + 1 THEN -1
    ELSE LET lens == BlockLens(bytes, pos + BlocksAt)
             stop == pos + BlocksAt + SumSeq(lens) + Len(lens) + 1
         IN  IF /\ SubSeq(bytes, pos + 1, pos + 4) = <<33, 249, 4, 0>>
                /\ SubSeq(bytes, pos + 7, pos + 8) = <<0, 0>>
                /\ SubSeq(bytes, pos + 9, pos + 13) = <<44, 0, 0, 0, 0>>
                /\ U16(bytes, pos + 13) = w
                /\ U16(bytes, pos + 15) = h
                /\ bytes[pos + 18] = 135
                /\ bytes[pos + CodeSizeAt + 1] = 8
                /\ Len(lens) >= 1
                /\ \A k \in 1..Len(lens) : lens[k] \in 1..255
                /\ stop <= Len(bytes)
                /\ bytes[stop] = 0
             THEN stop
             ELSE -1

\* the offset after n consecutive frame blocks from offset pos, or -1
RECURSIVE FramesEnd(_, _, _, _, _)
FramesEnd(bytes, pos, n, w, h) ==
    IF n = 0 \/ pos < 0 THEN pos
    ELSE FramesEnd(bytes, FrameEnd(bytes, pos, w, h), n - 1, w, h)

\* the delay fields of n consecutive frame blocks from offset pos
RECURSIVE FrameDelays(_, _, _, _, _)
FrameDelays(bytes, pos, n, w, h) ==
    IF n = 0 \/ FrameEnd(bytes, pos, w, h) < 0 THEN <<>>
    ELSE <<U16(bytes, pos + 4)>>
         \o FrameDelays(bytes, FrameEnd(bytes, pos, w, h), n - 1, w, h)

\* palette entry k (0-based) of the frame block at offset pos
TableColor(bytes, pos, k) ==
    <<bytes[pos + TableAt + 3 * k + 1], bytes[pos + TableAt + 3 * k + 2],
      bytes[pos + TableAt + 3 * k + 3]>>

\* the header the format prescribes for a w x h canvas that loops forever
Header(w, h) ==
    <<71, 73, 70, 56, 57, 97, w % 256, w \div 256, h % 256, h \div 256, 112, 0, 0,
      33, 255, 11, 78, 69, 84, 83, 67, 65, 80, 69, 50, 46, 48, 3, 1, 0, 0, 0>>

-----------------------------------------------------------------------------
(* Properties of the session, checked under Spec.                          *)

\* this step is a call of addFrame
AddStep == Len(calls') = Len(calls) + 1 /\ calls'[Len(calls')][1] = "addFrame"

\* the bytes this step appended
Appended == SubSeq(data', Len(data) + 1, Len(data'))

IsPrefix(a, b) == Len(a) <= Len(b) /\ a = SubSeq(b, 1, Len(a))

\* x & 0xF8 on each channel, by arithmetic
Quantized(px) == <<8 * (px[1] \div 8), 8 * (px[2] \div 8), 8 * (px[3] \div 8)>>

Dist2(a, b) ==
    (a[1] - b[1]) * (a[1] - b[1]) + (a[2] - b[2]) * (a[2] - b[2])
    + (a[3] - b[3]) * (a[3] - b[3])

\* the number of palette entries a frame populates
Populated(pixels) ==
    LET n == Cardinality({Quantized(pixels[i]) : i \in 1..Len(pixels)})
    IN  IF n < 256 THEN n ELSE 256

\* what a GIF reader shows for a frame block is the colour, in the block's
\* local color table, of the index decoded for each pixel.
\* the surviving colours are the populated table entries, each the quantized
\* colour of some pixel of the frame and no two alike (so that every key
\* survives when the frame has at most 256 of them); pixel by pixel, ref(p)
\* is the colour the pixel p is compared by
Reproduces(block, pixels, out, ref(_)) ==
    LET n         == Populated(pixels)
        surviving == {TableColor(block, 0, k) : k \in 0..(n - 1)}
    IN  /\ Len(out) = Len(pixels)
        /\ surviving \subseteq {Quantized(pixels[i]) : i \in 1..Len(pixels)}
        /\ Cardinality(surviving) = n
        /\ \A i \in 1..Len(pixels) :
              /\ out[i] \in 0..255
              /\ LET c == TableColor(block, 0, out[i])
                 IN  IF Quantized(pixels[i]) \in surviving
                     THEN c = ref(pixels[i])
                     ELSE /\ c \in surviving
                          /\ \A s \in surviving :
                                Dist2(ref(pixels[i]), c) <= Dist2(ref(pixels[i]), s)

Original(px) == px

\* C1 as stated: decoding the frame block a call of addFrame appended gives,
\* for every pixel, its exact original colour if its quantized key survived,
\* else the surviving palette colour nearest to the pixel's colour.
C1_RoundTripOriginal ==
    [][AddStep =>
          Bind(Appended, LAMBDA block :
            Bind(Decode(Unblock(block, BlocksAt)).out, LAMBDA out :
              Reproduces(block, canvas', out, Original)))
      ]_vars

\* C1, amended: decoding the frame block a call of addFrame appended gives,
\* for every pixel, its quantized colour (each channel & 0xF8) if its
\* quantized key survived, else a surviving palette colour nearest by squared
\* RGB distance to its quantized colour; never an index out of 0..255.
C1_RoundTripQuantized ==
    [][AddStep =>
          Bind(Appended, LAMBDA block :
            Bind(Decode(Unblock(block, BlocksAt)).out, LAMBDA out :
              Reproduces(block, canvas', out, Quantized)))
      ]_vars

\* C1 witness: a frame with more than 256 quantized keys has been added, one
\* pixel of which has a colour that differs from its quantized colour.
C1_Witness ==
    /\ LastOp = "addFrame"
    /\ Cardinality({Quantized(canvas[i]) : i \in 1..Len(canvas)}) > 256
    /\ \E i \in 1..Len(canvas) : Quantized(canvas[i]) # canvas[i]

\* the calls made so far are start, then addFrame n times, then finish
ValidSession(n) ==
    /\ Len(calls) = n + 2
    /\ calls[1][1] = "start"
    /\ \A k \in 2..(n + 1) : calls[k][1] = "addFrame"
    /\ calls[n + 2][1] = "finish"

\* C4: after start, n >= 0 calls of addFrame and finish, in that order, the
\* buffer is the 32-byte header for the canvas, then n complete frame blocks,
\* then the single trailer byte 0x3B with nothing after it.
C4_WellFormedFile ==
    \A n \in 0..MaxCalls :
        ValidSession(n) =>
            /\ IsPrefix(Header(width, height), data)
            /\ FramesEnd(data, Len(Header(width, height)), n, width, height)
                   = Len(data) - 1
            /\ data[Len(data)] = 59

\* C4 witness: a valid session with two frames is over.
C4_Witness == ValidSession(2) /\ Len(data) > Len(Header(width, height)) + 1

\* C5: after start() the buffer is exactly the 32 bytes 'GIF89a', width and
\* height as 16-bit little-endian, 0x70 0x00 0x00 and the NETSCAPE2.0 loop
\* extension with loop count 0, whatever the buffer held before.
C5_StartResets == LastOp = "start" => data = Header(width, height)

\* C5 witness: start() was called on a buffer that already held a header,
\* a frame block and a trailer.
C5_Witness ==
    /\ LastOp = "start"
    /\ \E i, j, k \in 1..Len(calls) :
          /\ i < j /\ j < k /\ k < Len(calls)
          /\ calls[i][1] = "start"
          /\ calls[j][1] = "addFrame"
          /\ calls[k][1] = "finish"

\* the calls since the last start(), or all of them if there was none
SinceStart ==
    LET starts == {k \in 1..Len(calls) : calls[k][1] = "start"}
        from   == IF starts = {} THEN 1
                  ELSE (CHOOSE k \in starts : \A m \in starts : m <= k) + 1
    IN  SubSeq(calls, from, Len(calls))

AddsOf(cs) == SelectSeq(cs, LAMBDA c : c[1] = "addFrame")

\* C6: addFrame and finish only append to the buffer, never changing a byte
\* written before, and the frame blocks of an unfinished session lie in the
\* buffer in the order of the calls that wrote them (told apart by delay).
C6_AppendOnly ==
    /\ [][LastOp' # "start" => IsPrefix(data, data')]_vars
    /\ [](LET adds == AddsOf(SinceStart)
              from == IF \E k \in 1..Len(calls) : calls[k][1] = "start"
                      THEN Len(Header(width, height)) ELSE 0
          IN  (\A k \in 1..Len(SinceStart) : SinceStart[k][1] = "addFrame") =>
                  FrameDelays(data, from, Len(adds), width, height)
                      = [k \in 1..Len(adds) |-> (adds[k][2] + 5) \div 10])

\* C6 witness: two frames with different delays were added after start().
C6_Witness ==
    /\ Len(calls) = 3
    /\ calls[1][1] = "start"
    /\ calls[2][1] = "addFrame"
    /\ calls[3][1] = "addFrame"
    /\ calls[2][2] # calls[3][2]

\* C7: every call of addFrame appends one block laid out as: 0x21 0xF9 0x04
\* 0x00, the delay in centiseconds (16-bit LE), 0x00 0x00; 0x2C, left 0, top
\* 0, width, height (16-bit LE each), flags 0x87; a 768-byte color table; the
\* minimum code size 8; data sub-blocks; the terminator 0x00.
C7_FrameLayout ==
    [][AddStep =>
          Bind(Appended, LAMBDA block :
              /\ data' = data \o block
              /\ FrameEnd(block, 0, width, height) = Len(block)
              /\ U16(block, 4) = (calls'[Len(calls')][2] + 5) \div 10)
      ]_vars

\* C7 witness: a frame with a delay of 45 ms (5 centiseconds after rounding)
\* has been added to a started session.
C7_Witness ==
    /\ Len(calls) = 2
    /\ calls[1][1] = "start"
    /\ calls[2] = <<"addFrame", 45>>
    /\ U16(data, Len(Header(width, height)) + 4) = 5

\* the values addFrame computes for the pixels' indices, before they are stored
StoredIndices(pixels, sorted) ==
    Bind(ColorMap(sorted), LAMBDA cmap :
        {PixelIndex(pixels[i], sorted, cmap) : i \in 1..Len(pixels)})

\* C8: however many distinct colours a frame has, its color table has exactly
\* 256 entries (768 bytes), zero after the populated entries, and every index
\* the frame's pixels are given is below 256.
C8_PaletteBound ==
    [][AddStep =>
          Bind(Appended, LAMBDA block :
            Bind(SortedColors(canvas'), LAMBDA sorted :
              /\ Len(sorted) = Populated(canvas')
              /\ Len(block) > BlocksAt
              /\ block[TableAt] = 135
              /\ block[CodeSizeAt + 1] = 8
              /\ \A k \in 0..255 :
                    TableColor(block, 0, k) =
                        IF k < Len(sorted) THEN KeyRGB(sorted[k + 1])
                        ELSE <<0, 0, 0>>
              /\ StoredIndices(canvas', sorted) \subseteq 0..255))
      ]_vars

\* C8 witness: a frame with more than 256 quantized keys has been added, so
\* that all 256 entries are populated and a key was dropped.
C8_Witness ==
    /\ LastOp = "addFrame"
    /\ Len(KeysOf(canvas)) > 256
    /\ Len(data) > BlocksAt

\* the number of bytes lzwEncode packs the codes of a frame into
PackedCount(pixels) ==
    Bind(SortedColors(pixels), LAMBDA sorted :
      Bind(Indexed(pixels, sorted), LAMBDA indexed :
        Bind(LzwPacked(indexed), LAMBDA s : Len(s.output))))

\* C9: the compressed bytes of a frame are written as sub-blocks of 1 to 255
\* bytes, all but the last of exactly 255, whose lengths sum to the number of
\* packed bytes, followed by one zero-length terminator.
C9_SubBlocks ==
    [][AddStep =>
          Bind(Appended, LAMBDA block :
            Bind(BlockLens(block, BlocksAt), LAMBDA lens :
              /\ Len(lens) >= 1
              /\ \A k \in 1..Len(lens) : lens[k] \in 1..255
              /\ \A k \in 1..(Len(lens) - 1) : lens[k] = 255
              /\ SumSeq(lens) = PackedCount(canvas')
              /\ Len(block) = BlocksAt + SumSeq(lens) + Len(lens) + 1
              /\ block[Len(block)] = 0))
      ]_vars

\* C9 witness: a frame whose compressed bytes number exactly 255 has been
\* added: one full sub-block, then the terminator.
C9_Witness ==
    /\ Len(calls) = 1
    /\ LastOp = "addFrame"
    /\ BlockLens(data, BlocksAt) = <<255>>

-----------------------------------------------------------------------------
(* Properties of lzwEncode, checked under SpecCodec and SpecLzw.           *)

\* C2: lzwEncode is lossless: the reference decoder, applied to the
\* concatenated sub-block payload, never meets an invalid code and returns
\* exactly the input plane.
C2_Lossless ==
    pc = "decode" =>
        /\ dec.status \in {"eoi", "exhausted"}
        /\ dec.out = plane

\* C2 witness: a plane long enough to fill the dictionary twice, so that two
\* clear codes were written mid-stream, has been decoded back in full.
C2_Witness ==
    /\ pc = "decode"
    /\ Len(plane) > 2 * FillLen
    /\ dec.out = plane
    /\ Cardinality({k \in 1..(Len(lz.widths) - 1) :
                       lz.widths[k] = 12 /\ lz.widths[k + 1] = 9}) = 2

\* C3: every code lzwEncode wrote (data codes, clear codes, the end code) was
\* written with the bit width the decoder uses to read the code at that
\* position, and the decoder stops by reading the end code.
C3_WidthsMatchDecoder ==
    pc = "decode" =>
        /\ dec.widths = lz.widths
        /\ dec.status = "eoi"

\* C10: the code width goes from w to w + 1 exactly in a loop iteration that
\* registers a dictionary entry making nextCode exceed 2^w; the codes emitted
\* in that iteration are still w bits wide; while nextCode is at most 512 the
\* width is 9 (the first growth is at nextCode = 513); the width never
\* exceeds 12, and otherwise changes only by the reset to 9 at a clear.
C10_WidthGrowth ==
    [][pc = "loop" /\ pc' = "loop" /\ lz'.i = lz.i + 1 =>
        LET registered == lz'.nextCode = lz.nextCode + 1
            cleared    == lz'.nextCode = 258 /\ lz'.dict = <<>> /\ lz.nextCode = DictLimit
        IN  /\ (lz'.codeSize = lz.codeSize + 1)
                  <=> (registered /\ lz'.nextCode > Pow2(lz.codeSize) /\ lz.codeSize < 12)
            /\ \A k \in (Len(lz.widths) + 1)..Len(lz'.widths) : lz'.widths[k] = lz.codeSize
            /\ lz.codeSize >= 9 /\ lz'.codeSize <= 12
            /\ lz'.nextCode <= 512 => lz'.codeSize = 9
            /\ lz'.nextCode > 512 => lz'.codeSize > 9
            /\ lz'.codeSize # lz.codeSize =>
                  lz'.codeSize = lz.codeSize + 1 \/ (cleared /\ lz'.codeSize = 9)
      ]_vars

\* C10 witness: the iteration that registered code 512 has just widened the
\* codes to 10 bits, all codes emitted so far being 9 bits wide.
C10_Witness ==
    /\ pc = "loop"
    /\ lz.nextCode = 513
    /\ lz.codeSize = 10
    /\ \A k \in 1..Len(lz.widths) : lz.widths[k] = 9

\* the loop iteration about to run meets a sequence that is not in the
\* dictionary
NewSequence == lz.i < Len(plane) /\ <<lz.prev, plane[lz.i + 1]>> \notin DOMAIN lz.dict

\* C11: at every step of lzwEncode nextCode is in 258..4096 and codeSize in
\* 9..12; the dictionary has nextCode - 258 entries, an iteration that
\* registers a sequence gives it the value nextCode, in 258..4095, and changes
\* no other entry, so that every dictionary value is in 258..4095 (looked at
\* entry by entry every BurstLong iterations and at the end); the codes each
\* step passes to emit are below 2^codeSize when they are emitted; an
\* iteration that meets a new sequence with nextCode = 4096 emits the pending
\* code, then the clear code, and leaves the dictionary empty, codeSize 9 and
\* nextCode 258.
C11_DictionaryBounds ==
    /\ [](pc \in {"loop", "written"} =>
            /\ lz.nextCode \in 258..DictLimit
            /\ lz.codeSize \in 9..12
            /\ Cardinality(DOMAIN lz.dict) = lz.nextCode - 258
            /\ Len(lz.codes) = Len(lz.widths)
            /\ (pc = "written" \/ (lz.i - 1) % BurstLong = 0) =>
                  \A key \in DOMAIN lz.dict : lz.dict[key] \in 258..(DictLimit - 1))
    /\ [][\A k \in (Len(lz.codes) + 1)..Len(lz'.codes) :
              lz'.codes[k] >= 0 /\ lz'.codes[k] < Pow2(lz'.widths[k])]_vars
    /\ [][pc = "loop" /\ pc' = "loop" /\ lz'.i = lz.i + 1 =>
              IF ~NewSequence
              THEN lz'.dict = lz.dict /\ lz'.nextCode = lz.nextCode
              ELSE IF lz.nextCode < DictLimit
              THEN /\ lz.nextCode \in 258..(DictLimit - 1)
                   /\ lz'.dict = (<<lz.prev, plane[lz.i + 1]>> :> lz.nextCode) @@ lz.dict
                   /\ lz'.nextCode = lz.nextCode + 1
              ELSE /\ lz'.codes = lz.codes \o <<lz.prev, clearCode>>
                   /\ lz'.dict = <<>>
                   /\ lz'.codeSize = 9
                   /\ lz'.nextCode = 258
       ]_vars

\* C11 witness: the dictionary has just been emptied by a clear code written
\* mid-stream, after 4095 had been handed out as a code.
C11_Witness ==
    /\ pc = "loop"
    /\ lz.nextCode = 258
    /\ lz.dict = <<>>
    /\ Len(lz.codes) > FillLen
    /\ lz.codes[Len(lz.codes)] = clearCode

\* the index sequence a code stands for, read off the encoder's dictionary
RECURSIVE SequenceOf(_, _)
SequenceOf(dict, code) ==
    IF code < 256 THEN <<code>>
    ELSE LET key == CHOOSE k \in DOMAIN dict : dict[k] = code
         IN  SequenceOf(dict, key[1]) \o <<key[2]>>

\* the number of bits of the codes written
BitsWritten ==
    LET count(w) == Cardinality({k \in 1..Len(lz.widths) : lz.widths[k] = w})
    IN  9 * count(9) + 10 * count(10) + 11 * count(11) + 12 * count(12)

\* C12: the code stream of a non-empty plane begins with the clear code; its
\* last two codes are the code of the final current sequence (a sequence the
\* plane ends with) and the end code; the end code occurs nowhere else, the
\* packed bytes hold the codes' bits and no further byte, and the bits after
\* the end code in the last byte are zero.
C12_StreamEnds ==
    pc \in {"written", "decode"} =>
        LET n    == Len(lz.codes)
            last == SequenceOf(lz.dict, lz.codes[n - 1])
            pad  == 8 * Len(lz.output) - BitsWritten
        IN  /\ n >= 3
            /\ lz.codes[1] = clearCode
            /\ lz.codes[n] = eoiCode
            /\ \A k \in 1..(n - 1) : lz.codes[k] # eoiCode
            /\ Len(last) <= Len(plane)
            /\ last = SubSeq(plane, Len(plane) - Len(last) + 1, Len(plane))
            /\ pad \in 0..7
            /\ lz.output[Len(lz.output)] < Pow2(8 - pad)

\* C12 witness: a stream is written whose final current sequence is several
\* indices long and whose end code is followed by padding bits.
C12_Witness ==
    /\ pc = "written"
    /\ lz.codes[Len(lz.codes) - 1] >= 258
    /\ 8 * Len(lz.output) > BitsWritten

\* C13: the two delay bytes of the block addFrame appends are, low byte
\* first, the integer nearest to delayMs / 10, the upper one if there are two
\* (45 ms gives 5 0, 0 ms gives 0 0, 44 ms gives 4 0).
C13_DelayBytes ==
    [][AddStep =>
          LET delayMs == calls'[Len(calls')][2]
              lo      == Appended[5]
              hi      == Appended[6]
              cs      == lo + 256 * hi
          IN  /\ lo \in 0..255 /\ hi \in 0..255
              /\ 10 * cs - 5 <= delayMs /\ delayMs < 10 * cs + 5
              /\ delayMs = 45 => lo = 5 /\ hi = 0
              /\ delayMs = 0 => lo = 0 /\ hi = 0
              /\ delayMs = 44 => lo = 4 /\ hi = 0
      ]_vars

\* C13 witness: a frame with a delay of 2555 ms has been added: 255.5 is
\* rounded up to 256, written as the bytes 0 and 1.
C13_Witness ==
    /\ calls = <<<<"addFrame", 2555>>>>
    /\ data[5] = 0
    /\ data[6] = 1

\* the quantized keys of the populated entries of the color table of the
\* frame block at offset pos, n of them
TableKeys(bytes, pos, n) ==
    [k \in 1..n |->
        LET c == TableColor(bytes, pos, k - 1)
        IN  65536 * c[1] + 256 * c[2] + c[3]]

\* the number of pixels of each of the keys
PixelCounts(pixels, keys) ==
    [k \in 1..Len(keys) |->
        Cardinality({i \in 1..Len(pixels) : Quantized(pixels[i]) = KeyRGB(keys[k])})]

Survivors(block, pixels) ==
    [k \in 1..Populated(pixels) |-> TableColor(block, 0, k - 1)]

\* every pixel whose quantized key has no table entry has the index of the
\* first entry at minimum squared distance from ref(pixel)
SlowPathFrom(table, pixels, out, ref(_)) ==
    LET kept == {table[k] : k \in 1..Len(table)}
    IN  \A i \in 1..Len(pixels) :
            Quantized(pixels[i]) \notin kept =>
                /\ out[i] \in 0..(Len(table) - 1)
                /\ \A k \in 1..Len(table) :
                      IF k - 1 < out[i]
                      THEN Dist2(ref(pixels[i]), table[k])
                               > Dist2(ref(pixels[i]), table[out[i] + 1])
                      ELSE Dist2(ref(pixels[i]), table[k])
                               >= Dist2(ref(pixels[i]), table[out[i] + 1])

\* C15 as stated: a pixel whose quantized key is not among the retained keys
\* gets the index of the first palette entry at minimum squared RGB distance
\* from the pixel's original (unquantized) colour.
C15_SlowPathOriginal ==
    [][AddStep =>
          Bind(Appended, LAMBDA block :
            Bind(Decode(Unblock(block, BlocksAt)).out, LAMBDA out :
              Bind(Survivors(block, canvas'), LAMBDA table :
                SlowPathFrom(table, canvas', out, Original))))
      ]_vars

\* C15, amended: a pixel whose quantized key is not among the retained keys
\* gets the index of the first palette entry at minimum squared RGB distance
\* from the pixel's quantized colour (each channel & 0xF8).
C15_SlowPathQuantized ==
    [][AddStep =>
          Bind(Appended, LAMBDA block :
            Bind(Decode(Unblock(block, BlocksAt)).out, LAMBDA out :
              Bind(Survivors(block, canvas'), LAMBDA table :
                SlowPathFrom(table, canvas', out, Quantized))))
      ]_vars

\* C15 witness: the one frame added has a pixel whose key was dropped and
\* for which two palette entries are at the same, minimum, distance from its
\* quantized colour.
C15_Witness ==
    /\ Len(calls) = 1
    /\ LastOp = "addFrame"
    /\ Bind(Survivors(data, canvas), LAMBDA table :
          \E i \in 1..Len(canvas) :
              /\ \A k \in 1..Len(table) : table[k] # Quantized(canvas[i])
              /\ \E a, b \in 1..Len(table) :
                    /\ a < b
                    /\ Dist2(Quantized(canvas[i]), table[a])
                           = Dist2(Quantized(canvas[i]), table[b])
                    /\ \A k \in 1..Len(table) :
                          Dist2(Quantized(canvas[i]), table[k])
                              >= Dist2(Quantized(canvas[i]), table[a]))

\* the quantized colours of a frame
QuantizedSet(pixels) == {Quantized(pixels[i]) : i \in 1..Len(pixels)}

\* C16: when a frame has at most 256 distinct quantized keys, every key has
\* a palette entry of its own, no pixel takes the slow path, and every
\* pixel's index is that of the entry holding its quantized colour.
C16_ExactPalette ==
    [][AddStep /\ Cardinality(QuantizedSet(canvas')) <= 256 =>
          Bind(Appended, LAMBDA block :
            Bind(Decode(Unblock(block, BlocksAt)).out, LAMBDA out :
              Bind(Survivors(block, canvas'), LAMBDA table :
                Bind(SortedColors(canvas'), LAMBDA sorted :
                  /\ {table[k] : k \in 1..Len(table)} = QuantizedSet(canvas')
                  /\ Len(table) = Cardinality(QuantizedSet(canvas'))
                  /\ Len(out) = Len(canvas')
                  /\ \A i \in 1..Len(canvas') :
                        /\ KeyOf(canvas'[i]) \in DOMAIN ColorMap(sorted)
                        /\ out[i] \in 0..(Len(table) - 1)
                        /\ table[out[i] + 1] = Quantized(canvas'[i])))))
      ]_vars

\* C16 witness: a frame with exactly 256 quantized keys, some of them on
\* several pixels, has been added.
C16_Witness ==
    /\ LastOp = "addFrame"
    /\ Cardinality(QuantizedSet(canvas)) = 256
    /\ Len(canvas) > 256

\* the number of pixels of a frame with the quantized colour c
PixelsOf(pixels, c) == Cardinality({i \in 1..Len(pixels) : Quantized(pixels[i]) = c})

\* C17: the populated palette entries are min(256, number of distinct
\* quantized keys) keys of the frame, no two alike, in non-increasing order of
\* pixel count and, among equal counts, in ascending order of key (the rank
\* a stable sort of the ascending keys gives them); a key left out has a
\* count no larger than that of any retained key.
C17_PaletteOrder ==
    [][AddStep =>
          Bind(TableKeys(Appended, 0, Populated(canvas')), LAMBDA keys :
            Bind(PixelCounts(canvas', keys), LAMBDA n :
              Bind({KeyRGB(keys[k]) : k \in 1..Len(keys)}, LAMBDA kept :
                /\ Len(keys) = (IF Cardinality(QuantizedSet(canvas')) < 256
                                 THEN Cardinality(QuantizedSet(canvas')) ELSE 256)
                /\ Cardinality(kept) = Len(keys)
                /\ kept \subseteq QuantizedSet(canvas')
                /\ \A i \in 1..(Len(keys) - 1) :
                      \/ n[i] > n[i + 1]
                      \/ n[i] = n[i + 1] /\ keys[i] < keys[i + 1]
                /\ \A c \in QuantizedSet(canvas') \ kept :
                      \A i \in 1..Len(keys) : PixelsOf(canvas', c) <= n[i])))
      ]_vars

\* C17 witness: a frame has been added that has more than 256 keys, so
\* that one is left out, and keys of different counts.
C17_Witness ==
    /\ LastOp = "addFrame"
    /\ Cardinality(QuantizedSet(canvas)) > 256
    /\ \E c, d \in QuantizedSet(canvas) : PixelsOf(canvas, c) < PixelsOf(canvas, d)

\* C18: a frame all of whose pixels have one quantized key gets a palette
\* whose entry 0 is that colour and whose other 255 entries are zero, and an
\* index plane of zeros.
C18_OneColour ==
    [][AddStep /\ Cardinality(QuantizedSet(canvas')) = 1 =>
          Bind(Appended, LAMBDA block :
            Bind(Decode(Unblock(block, BlocksAt)).out, LAMBDA out :
              /\ TableColor(block, 0, 0) = Quantized(canvas'[1])
              /\ \A k \in 1..255 : TableColor(block, 0, k) = <<0, 0, 0>>
              /\ Populated(canvas') = 1
              /\ SortedColors(canvas') = <<KeyOf(canvas'[1])>>
              /\ Indexed(canvas', SortedColors(canvas')) = [i \in 1..Len(canvas') |-> 0]
              /\ out = [i \in 1..Len(canvas') |-> 0]))
      ]_vars

\* C18 witness: the 2x2 all-black frame has been added.
C18_Witness ==
    /\ width = 2 /\ height = 2
    /\ LastOp = "addFrame"
    /\ canvas = <<Black, Black, Black, Black>>
    /\ Len(data) > BlocksAt

\* no call so far was start()
Unstarted == \A k \in 1..Len(calls) : calls[k][1] # "start"

\* C19: in every state of a session, whatever was called before, each of
\* start, addFrame and finish can be called and completes; start leaves
\* exactly the header, addFrame appends one complete frame block carrying
\* its delay to the bytes that were there (none, or bytes ending in a
\* trailer), and finish appends one byte 0x3B, a second time too.
C19_AnyOrder ==
    /\ [](Len(calls) < MaxCalls =>
            /\ ENABLED Start
            /\ ENABLED Finish
            /\ ENABLED AddFrame([i \in 1..(width * height) |-> Black], 45))
    /\ [][Len(calls') = Len(calls) + 1 =>
            /\ LastOp' = "start" => data' = Header(width, height)
            /\ LastOp' = "finish" => data' = data \o <<59>>
            /\ LastOp' = "addFrame" =>
                  /\ IsPrefix(data, data')
                  /\ FrameEnd(data', Len(data), width, height) = Len(data')
                  /\ U16(data', Len(data) + 4) = (calls'[Len(calls')][2] + 5) \div 10
       ]_vars

\* C19 witness: addFrame was called before any start, then finish twice,
\* then addFrame again: the buffer is a frame block, two trailers and a
\* second frame block.
C19_Witness ==
    /\ Len(calls) = 4
    /\ Unstarted
    /\ calls[1][1] = "addFrame"
    /\ calls[2][1] = "finish"
    /\ calls[3][1] = "finish"
    /\ calls[4][1] = "addFrame"
    /\ \E end \in 1..Len(data) :
          /\ FrameEnd(data, 0, width, height) = end
          /\ data[end + 1] = 59
          /\ data[end + 2] = 59
          /\ FrameEnd(data, end + 2, width, height) = Len(data)

-----------------------------------------------------------------------------
(* GIFGenerator: a canvas, the frames kept for preview and a GIF object    *)
(* of gif.js, which is told the frames and renders them.  Of the GIF       *)
(* object the model keeps what the generator gives it and can stir: the    *)
(* options it was made with, the frames added to it, whether a render is   *)
(* under way, and the events that have a listener.                         *)

MaxGenCalls == 4

\* options.name || fallback
OrElse(options, name, fallback) ==
    IF name \in DOMAIN options /\ options[name] # 0 THEN options[name] ELSE fallback

\* options.name !== undefined ? options.name : fallback
DefinedOr(options, name, fallback) ==
    IF name \in DOMAIN options THEN options[name] ELSE fallback

\* the options `new GIFGenerator(options)` is given
GivenOptions ==
    {[width |-> 2, height |-> 1],
     [width |-> 2, height |-> 1, quality |-> 1, loop |-> 0],
     [width |-> 2, height |-> 1, quality |-> 0, workers |-> 4],
     [width |-> 1, height |-> 2, workers |-> 0, loop |-> -1]}

\* the delays addFrame is called with
GenDelays == {50, 120}

\* what is drawn on the canvas between frames
Drawings == [1..2 -> {Black, White}]

\* new GIF({workers, quality, width, height, workerScript, repeat})
NewGIF ==
    [options   |-> [workers |-> opts.workers, quality |-> opts.quality,
                    width |-> width, height |-> height,
                    workerScript |-> "gif.worker.js", repeat |-> opts.loop],
     frames    |-> <<>>,
     running   |-> FALSE,
     listeners |-> {}]

\* constructor
InitGen ==
    /\ \E options \in GivenOptions :
          /\ width = OrElse(options, "width", 1080)
          /\ height = OrElse(options, "height", 1080)
          /\ opts = [quality |-> OrElse(options, "quality", 10),
                     workers |-> OrElse(options, "workers", 2),
                     loop    |-> DefinedOr(options, "loop", 0)]
    /\ canvas = Null
    /\ gif = Null
    /\ bounds = NoBounds
    /\ placedRegions = <<>>
    /\ anim = NoAnimation
    /\ timers = {}
    /\ drv = NoDriver
    /\ ui = NoPage
    /\ frames = <<>>
    /\ calls = <<>>
    /\ data = <<>>
    /\ pc = "idle"
    /\ plane = <<>>
    /\ lz = LzIdle
    /\ dec = DecIdle
    /\ twin = <<>>

\* init(): a new canvas, and a GIF object when gif.js is loaded
GenInit(loaded) ==
    /\ Len(calls) < MaxGenCalls
    /\ canvas' = [i \in 1..(width * height) |-> Black]
    /\ gif' = IF loaded THEN Ref(NewGIF) ELSE gif
    /\ calls' = Append(calls, <<"init", 0>>)
    /\ UNCHANGED <<anim, timers, drv, ui, bounds, placedRegions, width, height, opts, frames, data, pc, plane, lz, dec, twin>>

\* clear() and the drawing helpers: they need the context init() made
GenDraw(pixels) ==
    /\ canvas # Null
    /\ canvas' = pixels
    /\ UNCHANGED <<anim, timers, drv, ui, bounds, placedRegions, width, height, opts, frames, gif, calls, data, pc, plane, lz,
                   dec, twin>>

\* addFrame(delay): before init() the read of this.ctx throws and nothing
\* is stored
GenAddFrame(delay) ==
    /\ Len(calls) < MaxGenCalls
    /\ calls' = Append(calls, <<"addFrame", delay>>)
    /\ IF canvas = Null
       THEN UNCHANGED <<anim, timers, drv, ui, bounds, placedRegions, gif, frames>>
       ELSE /\ gif' = IF gif = Null THEN gif
                      ELSE Ref([gif[1] EXCEPT !.frames =
                                   Append(@, [image |-> canvas, delay |-> delay])])
            /\ frames' = Append(frames, [imageData |-> canvas, delay |-> delay])
    /\ UNCHANGED <<anim, timers, drv, ui, bounds, placedRegions, width, height, opts, canvas, data, pc, plane, lz, dec, twin>>

\* render(): throws without a GIF object; else listens and starts the render
GenRender ==
    /\ Len(calls) < MaxGenCalls
    /\ calls' = Append(calls, <<"render", 0>>)
    /\ gif' = IF gif = Null THEN gif
              ELSE Ref([gif[1] EXCEPT !.listeners = @ \cup {"finished", "error"},
                                      !.running = TRUE])
    /\ UNCHANGED <<anim, timers, drv, ui, bounds, placedRegions, width, height, opts, canvas, frames, data, pc, plane, lz, dec,
                   twin>>

\* the workers of a render are done: 'finished' is emitted
GenFinished ==
    /\ gif # Null
    /\ gif[1].running
    /\ gif' = Ref([gif[1] EXCEPT !.running = FALSE])
    /\ UNCHANGED <<anim, timers, drv, ui, bounds, placedRegions, width, height, opts, canvas, frames, calls, data, pc, plane, lz,
                   dec, twin>>

\* a faulty variant of reset(): the GIF object is aborted but kept
GenResetKeep ==
    /\ Len(calls) < MaxGenCalls
    /\ calls' = Append(calls, <<"reset", 0>>)
    /\ frames' = <<>>
    /\ gif' = IF gif = Null THEN gif ELSE Ref([gif[1] EXCEPT !.running = FALSE])
    /\ UNCHANGED <<anim, timers, drv, ui, bounds, placedRegions, width, height, opts, canvas, data, pc, plane, lz, dec, twin>>

\* reset(): this.frames = []; the GIF object, if any, is aborted and
\* replaced by a new one
GenReset ==
    /\ Len(calls) < MaxGenCalls
    /\ calls' = Append(calls, <<"reset", 0>>)
    /\ frames' = <<>>
    /\ gif' = IF gif = Null THEN gif ELSE Ref(NewGIF)
    /\ UNCHANGED <<anim, timers, drv, ui, bounds, placedRegions, width, height, opts, canvas, data, pc, plane, lz, dec, twin>>

NextGen ==
    \/ \E loaded \in BOOLEAN : GenInit(loaded)
    \/ \E pixels \in Drawings : GenDraw(pixels)
    \/ \E delay \in GenDelays : GenAddFrame(delay)
    \/ GenRender
    \/ GenFinished
    \/ GenReset

SpecGen == InitGen /\ [][NextGen]_vars

\* the calls made so far include one of the operation op
Called(op) == \E k \in 1..Len(calls) : calls[k][1] = op

RECURSIVE LittleEndian(_)
LittleEndian(bytes) ==
    IF bytes = <<>> THEN 0 ELSE Head(bytes) + 256 * LittleEndian(Tail(bytes))

\* this step is one step of lzwEncode: its entry, one iteration of its loop,
\* or its end
OneStep ==
    \/ pc = "call" /\ pc' = "loop"
    \/ pc = "loop" /\ pc' = "loop" /\ lz'.i = lz.i + 1
    \/ pc = "loop" /\ pc' = "written"

\* C24: the codes are packed least significant bit first in the order they
\* are emitted: the bits a step adds lie above the bits buffered before, the
\* lowest of them in the bytes pushed, the rest in the buffer.  After every
\* emit fewer than 8 bits are buffered and the buffer holds nothing above
\* them; during an emit it stays below 2^19.  The packed payload has
\* ceil(bits emitted / 8) bytes, and its last byte is the buffer, whose unused
\* high bits are zero.
C24_BitPacker ==
    /\ [](pc \in {"loop", "written"} =>
            /\ lz.bufferLen \in 0..7
            /\ lz.buffer \in 0..(Pow2(lz.bufferLen) - 1))
    /\ [](pc = "written" =>
            /\ Len(lz.output) = (BitsWritten + 7) \div 8
            /\ 8 * Len(lz.output) - BitsWritten = (8 - lz.bufferLen) % 8
            /\ lz.bufferLen > 0 => lz.output[Len(lz.output)] = lz.buffer)
    /\ [][OneStep =>
            LET n     == Len(lz.codes)
                m     == Len(lz'.codes) - n
                w     == IF pc = "call" THEN 9 ELSE lz.codeSize
                first == lz.buffer + lz'.codes[n + 1] * Pow2(lz.bufferLen)
                kept  == (lz.bufferLen + w) % 8
                mid   == first \div Pow2(lz.bufferLen + w - kept)
                all   == IF m = 0 THEN lz.buffer
                         ELSE IF m = 1 THEN first
                         ELSE first + lz'.codes[n + 2] * Pow2(lz.bufferLen + w)
                p     == (lz.bufferLen + m * w) \div 8
                pad   == IF pc' = "written" /\ lz'.bufferLen > 0 THEN 1 ELSE 0
                bytes == SubSeq(lz'.output, Len(lz.output) + 1, Len(lz.output) + p)
            IN  /\ m \in 0..2
                /\ \A k \in (n + 1)..(n + m) : lz'.widths[k] = w
                /\ SubSeq(lz'.output, 1, Len(lz.output)) = lz.output
                /\ Len(lz'.output) = Len(lz.output) + p + pad
                /\ \A k \in 1..Len(bytes) : bytes[k] \in 0..255
                /\ lz'.bufferLen = lz.bufferLen + m * w - 8 * p
                /\ all = LittleEndian(bytes) + lz'.buffer * Pow2(8 * p)
                /\ m >= 1 => first < Pow2(19)
                /\ m = 2 => mid + lz'.codes[n + 2] * Pow2(kept) < Pow2(19)
       ]_vars

\* C24 witness: a stream with 10-bit codes is packed, its last byte holding
\* fewer than 8 bits of the end code.
C24_Witness ==
    /\ pc = "written"
    /\ \E k \in 1..Len(lz.widths) : lz.widths[k] = 10
    /\ lz.bufferLen > 0
    /\ lz.output[Len(lz.output)] = lz.buffer

\* C26: every index in the index plane of a frame of at least one pixel, be
\* it taken from colorMap or found by the search for the closest colour, is
\* below the number of populated table entries, and the entry it names
\* holds a quantized colour of the frame.
C26_IndexInPalette ==
    [][AddStep /\ Len(canvas') >= 1 =>
          Bind(Appended, LAMBDA block :
            Bind(Decode(Unblock(block, BlocksAt)).out, LAMBDA out :
              Bind(QuantizedSet(canvas'), LAMBDA colours :
                /\ Len(out) = Len(canvas')
                /\ \A i \in 1..Len(out) :
                      /\ out[i] \in 0..(Populated(canvas') - 1)
                      /\ TableColor(block, 0, out[i]) \in colours)))
    ]_vars

\* C26 witness: a frame whose last table entry is populated and one of
\* whose keys has no entry has been added, so that indices come from both
\* paths.
C26_Witness ==
    /\ LastOp = "addFrame"
    /\ Len(data) > BlocksAt
    /\ TableColor(data, 0, 255) # <<0, 0, 0>>
    /\ \E i \in 1..Len(canvas) :
          \A k \in 0..255 : TableColor(data, 0, k) # Quantized(canvas[i])

-----------------------------------------------------------------------------
(* TextLayoutManager.  Lengths are kept in half pixels, so that width / 2,  *)
(* height / 2 and offsetDistance * 0.7 (for an offsetDistance that is a     *)
(* multiple of 5) are whole numbers.  A text is given by the size           *)
(* measureText returns for it: the width the canvas measures and the font   *)
(* size.                                                                    *)

MaxLayoutCalls == 2

\* n pixels
Px(n) == 2 * n

\* padding = padding || 4 in getTextBounds
TextPadding == 4
\* the margin findNonOverlappingPosition passes to hasOverlap
OverlapMargin == 3
\* margin = margin || 2 in rectsOverlap
DefaultMargin == 2
\* padding = padding || 5 in isInBounds
BoundsPadding == 5

\* getTextBounds(text, x, y, align, baseline, font, padding)
GetTextBounds(size, x, y, align, baseline) ==
    LET w == size.width + 2 * Px(TextPadding)
        h == size.height + 2 * Px(TextPadding)
    IN  [x |-> IF align = "center" THEN x - w \div 2
               ELSE IF align = "right" THEN x - w + Px(TextPadding)
               ELSE x - Px(TextPadding),
         y |-> IF baseline = "middle" THEN y - h \div 2
               ELSE IF baseline = "bottom" THEN y - h + Px(TextPadding)
               ELSE y - Px(TextPadding),
         width |-> w, height |-> h]

\* rectsOverlap(a, b, margin)
RectsOverlap(a, b, margin) ==
    LET m == IF margin = 0 THEN Px(DefaultMargin) ELSE margin
    IN  ~ \/ a.x + a.width + m < b.x
          \/ b.x + b.width + m < a.x
          \/ a.y + a.height + m < b.y
          \/ b.y + b.height + m < a.y

\* hasOverlap(rect, margin)
HasOverlap(regions, rect, margin) ==
    \E i \in 1..Len(regions) : RectsOverlap(rect, regions[i], margin)

\* isInBounds(rect, padding)
IsInBounds(b, rect) ==
    /\ rect.x >= b.x + Px(BoundsPadding)
    /\ rect.y >= b.y + Px(BoundsPadding)
    /\ rect.x + rect.width <= b.x + b.width - Px(BoundsPadding)
    /\ rect.y + rect.height <= b.y + b.height - Px(BoundsPadding)

\* offsetDistance * 0.7, offsetDistance in half pixels
Diagonal(d) == (7 * d) \div 10

\* the positions findNonOverlappingPosition tries, in order
Positions(x, y, align, baseline, d) ==
    <<[x |-> x, y |-> y, align |-> align, baseline |-> baseline],
      [x |-> x + d, y |-> y, align |-> "left", baseline |-> baseline],
      [x |-> x - d, y |-> y, align |-> "right", baseline |-> baseline],
      [x |-> x, y |-> y - d, align |-> align, baseline |-> "bottom"],
      [x |-> x, y |-> y + d, align |-> align, baseline |-> "top"],
      [x |-> x + d, y |-> y - Diagonal(d), align |-> "left", baseline |-> "bottom"],
      [x |-> x - d, y |-> y - Diagonal(d), align |-> "right", baseline |-> "bottom"],
      [x |-> x + d, y |-> y + Diagonal(d), align |-> "left", baseline |-> "top"],
      [x |-> x - d, y |-> y + Diagonal(d), align |-> "right", baseline |-> "top"],
      [x |-> x + 2 * d, y |-> y, align |-> "left", baseline |-> baseline],
      [x |-> x - 2 * d, y |-> y, align |-> "right", baseline |-> baseline]>>

\* the first element of a non-empty set of numbers
First(S) == CHOOSE i \in S : \A j \in S : i <= j

\* findNonOverlappingPosition(text, preferredX, preferredY, options)
FindNonOverlappingPosition(regions, b, size, x, y, align, baseline, d) ==
    LET positions == Positions(x, y, align, baseline, d)
        box(i) == GetTextBounds(size, positions[i].x, positions[i].y,
                                positions[i].align, positions[i].baseline)
        free   == {i \in 1..Len(positions) :
                      ~HasOverlap(regions, box(i), Px(OverlapMargin))
                      /\ IsInBounds(b, box(i))}
        inside == {i \in 1..Len(positions) : IsInBounds(b, box(i))}
    IN  IF free # {} THEN positions[First(free)]
        ELSE IF inside # {} THEN positions[First(inside)]
        ELSE positions[1]

\* the chart bounds a manager is created with, in pixels
ChartBounds == {[x |-> 0, y |-> 0, width |-> 100, height |-> 60]}

\* the measured sizes of the texts placed, in pixels: a short label and a
\* text wider than the chart
TextSizes == {[width |-> 20, height |-> 14], [width |-> 120, height |-> 14]}

\* the points texts are asked to be placed at, in pixels
Points == {<<10, 30>>, <<50, 30>>, <<95, 30>>, <<50, 5>>}

Aligns == {"left", "center", "right"}
Baselines == {"middle", "top"}

\* options.offsetDistance, in pixels
Offsets == {15}

\* the regions reserved for bars and dots, in pixels: the whole chart, and
\* a bar in its middle
Reserved == {[x |-> 0, y |-> 0, width |-> 100, height |-> 60],
             [x |-> 40, y |-> 20, width |-> 30, height |-> 20]}

\* a rectangle given in pixels
Scaled(r) == [x |-> Px(r.x), y |-> Px(r.y), width |-> Px(r.width),
              height |-> Px(r.height)]

\* TextLayoutManager.create(ctx, bounds)
InitLayout ==
    /\ \E b \in ChartBounds : bounds = Scaled(b)
    /\ placedRegions = <<>>
    /\ anim = NoAnimation
    /\ timers = {}
    /\ drv = NoDriver
    /\ ui = NoPage
    /\ calls = <<>>
    /\ width = 0
    /\ height = 0
    /\ data = <<>>
    /\ canvas = <<>>
    /\ pc = "idle"
    /\ plane = <<>>
    /\ lz = LzIdle
    /\ dec = DecIdle
    /\ twin = <<>>
    /\ opts = NoOptions
    /\ frames = <<>>
    /\ gif = Null

\* reserveRegion(x, y, width, height, priority)
ReserveRegion(r) ==
    /\ Len(calls) < MaxLayoutCalls
    /\ placedRegions' = Append(placedRegions,
           [x |-> r.x, y |-> r.y, width |-> r.width, height |-> r.height,
            priority |-> 0])
    /\ calls' = Append(calls, <<"reserveRegion", 0>>)
    /\ UNCHANGED <<anim, timers, drv, ui, bounds, width, height, data, canvas, pc, plane, lz, dec, twin,
                   opts, frames, gif>>

\* placeText(text, x, y, options): the region of the position used is
\* registered; calls records whether options.forcePosition was set
PlaceText(size, x, y, align, baseline, d, forcePosition) ==
    /\ Len(calls) < MaxLayoutCalls
    /\ LET finalPos == IF forcePosition
                       THEN [x |-> x, y |-> y, align |-> align, baseline |-> baseline]
                       ELSE FindNonOverlappingPosition(placedRegions, bounds, size,
                                                       x, y, align, baseline, d)
           box == GetTextBounds(size, finalPos.x, finalPos.y, finalPos.align,
                                finalPos.baseline)
       IN  placedRegions' = Append(placedRegions,
               [x |-> box.x, y |-> box.y, width |-> box.width,
                height |-> box.height, priority |-> 0])
    /\ calls' = Append(calls, <<"placeText", IF forcePosition THEN 1 ELSE 0>>)
    /\ UNCHANGED <<anim, timers, drv, ui, bounds, width, height, data, canvas, pc, plane, lz, dec, twin,
                   opts, frames, gif>>

\* clear()
ClearRegions ==
    /\ Len(calls) < MaxLayoutCalls
    /\ placedRegions' = <<>>
    /\ calls' = Append(calls, <<"clear", 0>>)
    /\ UNCHANGED <<anim, timers, drv, ui, bounds, width, height, data, canvas, pc, plane, lz, dec, twin,
                   opts, frames, gif>>

NextLayout ==
    \/ \E r \in Reserved : ReserveRegion(Scaled(r))
    \/ \E size \in TextSizes, p \in Points, align \in Aligns,
          baseline \in Baselines, d \in Offsets, forcePosition \in BOOLEAN :
            PlaceText(Scaled([x |-> 0, y |-> 0, width |-> size.width,
                              height |-> size.height]),
                      Px(p[1]), Px(p[2]), align, baseline, Px(d), forcePosition)
    \/ ClearRegions

SpecLayout == InitLayout /\ [][NextLayout]_vars

\* this step is a call of placeText without forcePosition
PlaceStep ==
    /\ Len(calls') = Len(calls) + 1
    /\ calls'[Len(calls')] = <<"placeText", 0>>

\* the region this step registered
Registered == placedRegions'[Len(placedRegions')]

\* C21: the region a call of placeText without forcePosition registers
\* overlaps (rectsOverlap, with the margin of 3 pixels the manager uses) no
\* region that was in placedRegions when the call was made.
C21_NoOverlap ==
    [][PlaceStep =>
          \A i \in 1..Len(placedRegions) :
              ~RectsOverlap(Registered, placedRegions[i], Px(OverlapMargin))
    ]_vars

\* C22: the region a call of placeText without forcePosition registers is
\* within the manager's bounds (isInBounds), whatever the position asked
\* for and whatever was placed before.
C22_InBounds ==
    [][PlaceStep =>
          /\ Registered.x >= bounds.x + Px(BoundsPadding)
          /\ Registered.y >= bounds.y + Px(BoundsPadding)
          /\ Registered.x + Registered.width
                 <= bounds.x + bounds.width - Px(BoundsPadding)
          /\ Registered.y + Registered.height
                 <= bounds.y + bounds.height - Px(BoundsPadding)
    ]_vars

-----------------------------------------------------------------------------
(* A session, and beside it a new encoder for every frame: each call of    *)
(* addFrame is also made on a GIFEncoder of the same width and height that *)
(* has just been constructed, whose buffer is kept in twin.                *)

\* a faulty variant of addFrame: colorCounts is not emptied, the pixels of
\* the frame before are still counted
AddFrameBesideCarry(pixels, delay) ==
    /\ Len(calls) < MaxCalls
    /\ canvas' = pixels
    /\ \E block \in {FrameBlock(width, height, pixels, delay)} : twin' = block
    /\ \E sorted \in {SortedColors(canvas \o pixels)} :
          data' = data \o FrameBytes(width, height, pixels, delay, sorted)
    /\ calls' = Append(calls, <<"addFrame", delay>>)
    /\ UNCHANGED <<anim, timers, drv, ui, bounds, placedRegions, opts, frames, gif, width, height, pc,
                   plane, lz, dec>>

\* addFrame(imageData, delay) on the session and on a new encoder
AddFrameBeside(pixels, delay) ==
    /\ Len(calls) < MaxCalls
    /\ canvas' = pixels
    /\ \E block \in {FrameBlock(width, height, pixels, delay)} :
          /\ twin' = block
          /\ data' = data \o block
    /\ calls' = Append(calls, <<"addFrame", delay>>)
    /\ UNCHANGED <<anim, timers, drv, ui, bounds, placedRegions, opts, frames, gif, width, height, pc,
                   plane, lz, dec>>

NextBeside ==
    \/ Start
    \/ \E in \in Inputs(width, height) : AddFrameBeside(in[1], in[2])
    \/ Finish

SpecBeside == Init /\ [][NextBeside]_vars

-----------------------------------------------------------------------------
(* generate(), the driver of the page.  The page runs one callback at a    *)
(* time: pc is "idle" when control is with the event loop, and else the    *)
(* function or statement the running callback is at.  A call of            *)
(* encoder.addFrame is two steps, the bytes up to the color table and the  *)
(* bytes from the minimum code size on.  drv.rendered is the history of    *)
(* the progress values renderFrame was called with, <<i, totalFrames>> for *)
(* i / totalFrames and <<1, 1>> for 1.                                     *)

MaxTotalFrames == 3
MaxHoldFrames == 2

\* ANIMATION
Animations ==
    {[totalFrames |-> tf, holdFrames |-> hf, frameDelay |-> 45, holdDelay |-> 65] :
        tf \in 0..MaxTotalFrames, hf \in 0..MaxHoldFrames}

\* what renderFrame(ctx, num / den) leaves on the canvas
Picture(num, den) == <<Shade(num), Shade(den + 40)>>

\* Math.round((current / total) * 100)
Percent(current, total) == (200 * current + total) \div (2 * total)

\* the page is loaded and generate() is about to run
InitDriver ==
    /\ anim \in Animations
    /\ width = 2
    /\ height = 1
    /\ data = <<>>
    /\ canvas = <<Black, Black>>
    /\ calls = <<>>
    /\ pc = "generate"
    /\ timers = {}
    /\ drv = NoDriver
    /\ ui = NoPage
    /\ plane = <<>>
    /\ lz = LzIdle
    /\ dec = DecIdle
    /\ twin = <<>>
    /\ opts = NoOptions
    /\ frames = <<>>
    /\ gif = Null
    /\ bounds = NoBounds
    /\ placedRegions = <<>>

\* generate(): new GIFEncoder, start(), updateProgress(0), the first timer
DrvGenerate ==
    /\ pc = "generate"
    /\ data' = StartBytes(width, height)
    /\ calls' = Append(calls, <<"start", 0>>)
    /\ drv' = [drv EXCEPT !.total = anim.totalFrames + anim.holdFrames + 1,
                          !.current = 0]
    /\ ui' = [ui EXCEPT !.pct = 0]
    /\ timers' = timers \cup {[fn |-> "renderAnimationFrames", i |-> 0, ms |-> 100]}
    /\ pc' = "idle"
    /\ UNCHANGED <<width, height, canvas, plane, lz, dec, twin, opts, frames, gif,
                   bounds, placedRegions, anim>>

\* the event loop runs a scheduled callback
DrvTimer ==
    /\ pc = "idle"
    /\ \E t \in timers :
          /\ timers' = timers \ {t}
          /\ pc' = t.fn
          /\ drv' = [drv EXCEPT !.i = t.i]
    /\ UNCHANGED <<width, height, data, canvas, calls, plane, lz, dec, twin, opts,
                   frames, gif, bounds, placedRegions, anim, ui>>

\* a faulty variant of renderAnimationFrames: if (i < ANIMATION.totalFrames)
DrvAnimationUnder ==
    /\ pc = "renderAnimationFrames"
    /\ IF drv.i < anim.totalFrames
       THEN /\ canvas' = Picture(drv.i, anim.totalFrames)
            /\ drv' = [drv EXCEPT !.fn = "renderAnimationFrames",
                                  !.delay = anim.frameDelay,
                                  !.rendered = Append(@, <<drv.i, anim.totalFrames>>)]
            /\ pc' = "addFrame"
       ELSE /\ drv' = [drv EXCEPT !.i = 0]
            /\ pc' = "renderHoldFrames"
            /\ UNCHANGED canvas
    /\ UNCHANGED <<width, height, data, calls, plane, lz, dec, twin, opts, frames,
                   gif, bounds, placedRegions, anim, timers, ui>>

\* renderAnimationFrames(i): renderFrame and on to addFrame, or
\* renderHoldFrames(0)
DrvAnimation ==
    /\ pc = "renderAnimationFrames"
    /\ IF drv.i <= anim.totalFrames
       THEN /\ canvas' = Picture(drv.i, anim.totalFrames)
            /\ drv' = [drv EXCEPT !.fn = "renderAnimationFrames",
                                  !.delay = anim.frameDelay,
                                  !.rendered = Append(@, <<drv.i, anim.totalFrames>>)]
            /\ pc' = "addFrame"
       ELSE /\ drv' = [drv EXCEPT !.i = 0]
            /\ pc' = "renderHoldFrames"
            /\ UNCHANGED canvas
    /\ UNCHANGED <<width, height, data, calls, plane, lz, dec, twin, opts, frames,
                   gif, bounds, placedRegions, anim, timers, ui>>

\* renderHoldFrames(i): renderFrame(ctx, 1) and on to addFrame, or
\* finishEncoding()
DrvHold ==
    /\ pc = "renderHoldFrames"
    /\ IF drv.i < anim.holdFrames
       THEN /\ canvas' = Picture(1, 1)
            /\ drv' = [drv EXCEPT !.fn = "renderHoldFrames",
                                  !.delay = anim.holdDelay,
                                  !.rendered = Append(@, <<1, 1>>)]
            /\ pc' = "addFrame"
       ELSE /\ pc' = "finishEncoding"
            /\ UNCHANGED <<canvas, drv>>
    /\ UNCHANGED <<width, height, data, calls, plane, lz, dec, twin, opts, frames,
                   gif, bounds, placedRegions, anim, timers, ui>>

\* the bytes of a frame block up to the end of the color table
BlockHead(block) == SubSeq(block, 1, CodeSizeAt)

\* the bytes of a frame block from the minimum code size on
BlockTail(block) == SubSeq(block, CodeSizeAt + 1, Len(block))

\* a faulty variant of addFrame: after the color table it hands control
\* back and leaves the rest to a callback
DrvAddFrameHeadYield ==
    /\ pc = "addFrame"
    /\ data' = data \o BlockHead(FrameBlock(width, height, canvas, drv.delay))
    /\ timers' = timers \cup {[fn |-> "lzwEncode", i |-> drv.i, ms |-> 0]}
    /\ pc' = "idle"
    /\ UNCHANGED <<width, height, canvas, calls, plane, lz, dec, twin, opts, frames,
                   gif, bounds, placedRegions, anim, drv, ui>>

\* encoder.addFrame(ctx, delay), up to the color table
DrvAddFrameHead ==
    /\ pc = "addFrame"
    /\ data' = data \o BlockHead(FrameBlock(width, height, canvas, drv.delay))
    /\ pc' = "lzwEncode"
    /\ UNCHANGED <<width, height, canvas, calls, plane, lz, dec, twin, opts, frames,
                   gif, bounds, placedRegions, anim, timers, drv, ui>>

\* encoder.addFrame(ctx, delay), from the minimum code size to its return
DrvAddFrameTail ==
    /\ pc = "lzwEncode"
    /\ data' = data \o BlockTail(FrameBlock(width, height, canvas, drv.delay))
    /\ calls' = Append(calls, <<"addFrame", drv.delay>>)
    /\ pc' = "progress"
    /\ UNCHANGED <<width, height, canvas, plane, lz, dec, twin, opts, frames, gif,
                   bounds, placedRegions, anim, timers, drv, ui>>

\* current++, updateProgress(pct, ...), setTimeout of the next call, return
DrvProgress ==
    /\ pc = "progress"
    /\ drv' = [drv EXCEPT !.current = @ + 1]
    /\ ui' = [ui EXCEPT !.pct = Percent(drv.current + 1, drv.total)]
    /\ timers' = timers \cup {[fn |-> drv.fn, i |-> drv.i + 1, ms |-> 0]}
    /\ pc' = "idle"
    /\ UNCHANGED <<width, height, data, canvas, calls, plane, lz, dec, twin, opts,
                   frames, gif, bounds, placedRegions, anim>>

\* a faulty variant of finishEncoding: the callback is not scheduled
DrvFinishEncodingLost ==
    /\ pc = "finishEncoding"
    /\ ui' = [ui EXCEPT !.pct = 99]
    /\ timers' = timers
    /\ pc' = "idle"
    /\ UNCHANGED <<width, height, data, canvas, calls, plane, lz, dec, twin, opts,
                   frames, gif, bounds, placedRegions, anim, drv>>

\* finishEncoding(): updateProgress(99, ...), setTimeout of the callback
DrvFinishEncoding ==
    /\ pc = "finishEncoding"
    /\ ui' = [ui EXCEPT !.pct = 99]
    /\ timers' = timers \cup {[fn |-> "finish", i |-> 0, ms |-> 50]}
    /\ pc' = "idle"
    /\ UNCHANGED <<width, height, data, canvas, calls, plane, lz, dec, twin, opts,
                   frames, gif, bounds, placedRegions, anim, drv>>

\* the callback of finishEncoding: encoder.finish(), the page shows success
DrvFinish ==
    /\ pc = "finish"
    /\ data' = data \o WriteByte(Trailer)
    /\ calls' = Append(calls, <<"finish", 0>>)
    /\ ui' = [ui EXCEPT !.pct = 100, !.status = "success"]
    /\ pc' = "idle"
    /\ UNCHANGED <<width, height, canvas, plane, lz, dec, twin, opts, frames, gif,
                   bounds, placedRegions, anim, timers, drv>>

NextDriver ==
    \/ DrvGenerate
    \/ DrvTimer
    \/ DrvAnimation
    \/ DrvHold
    \/ DrvAddFrameHead
    \/ DrvAddFrameTail
    \/ DrvProgress
    \/ DrvFinishEncoding
    \/ DrvFinish

SpecDriver == InitDriver /\ [][NextDriver]_vars

\* every scheduled callback fires in the end, and a running callback runs on
SpecDriverLive == SpecDriver /\ WF_vars(NextDriver)

\* the number of calls of addFrame that have returned
AddCount == Len(AddsOf(calls))

\* the page shows success and nothing is left to run
Done == pc = "idle" /\ timers = {} /\ ui.status = "success"

\* C25: whenever control is with the event loop after generate() has run,
\* the buffer is the header for the canvas followed by as many complete
\* frame blocks as calls of addFrame have returned, and by the trailer once
\* finish() has run; finish() runs from the event loop, after all
\* totalFrames + 1 + holdFrames calls of addFrame have returned.
C25_AtomicFrames ==
    /\ [](pc = "idle" =>
            /\ IsPrefix(Header(width, height), data)
            /\ FramesEnd(data, Len(Header(width, height)), AddCount, width, height)
                   = Len(data) - (IF LastOp = "finish" THEN 1 ELSE 0))
    /\ [][LastOp' = "finish" /\ LastOp # "finish" =>
            /\ pc = "finish"
            /\ AddCount = anim.totalFrames + 1 + anim.holdFrames
            /\ AddCount' = AddCount]_vars

\* C25 witness: control is with the event loop between two frames: two
\* frame blocks are written and a callback is scheduled.
C25_Witness ==
    /\ pc = "idle"
    /\ AddCount = 2
    /\ timers # {}
    /\ FramesEnd(data, Len(Header(width, height)), 2, width, height) = Len(data)

\* the calls of the encoder a run of generate() is to make
ExpectedCalls ==
    <<<<"start", 0>>>>
    \o [k \in 1..(anim.totalFrames + 1) |-> <<"addFrame", anim.frameDelay>>]
    \o [k \in 1..anim.holdFrames |-> <<"addFrame", anim.holdDelay>>]
    \o <<<<"finish", 0>>>>

\* the progress values renderFrame is to be called with
ExpectedRendered ==
    [k \in 1..(anim.totalFrames + 1) |-> <<k - 1, anim.totalFrames>>]
    \o [k \in 1..anim.holdFrames |-> <<1, 1>>]

\* C27: the calls generate() makes on the encoder are, in this order,
\* start() once, totalFrames + 1 calls of addFrame with frameDelay for the
\* frames rendered at i / totalFrames, i = 0..totalFrames, holdFrames calls
\* of addFrame with holdDelay for frames rendered at 1, and finish() once.
C27_CallOrder ==
    /\ IsPrefix(calls, ExpectedCalls)
    /\ IsPrefix(drv.rendered, ExpectedRendered)
    /\ Len(drv.rendered) - AddCount \in {0, 1}
    /\ Done => calls = ExpectedCalls /\ drv.rendered = ExpectedRendered

\* C27 witness: a run with three animation frames and one hold frame is
\* over.
C27_Witness ==
    /\ Done
    /\ anim.totalFrames = 2
    /\ anim.holdFrames = 1
    /\ Len(calls) = 6

\* C28: the percentage shown never decreases from one update to the next,
\* stays within 0..100, and is 100 only once finish() has returned.
C28_ProgressMonotone ==
    /\ [][ui'.pct >= ui.pct]_vars
    /\ [](ui.pct \in 0..100)
    /\ [](ui.pct = 100 => LastOp = "finish")

\* C29: a run of generate() ends with finish() called and the page showing
\* success, and at no time is more than one callback scheduled.
C29_Terminates ==
    /\ [](Cardinality(timers) <= 1)
    /\ [](pc # "idle" => timers = {})
    /\ <>(Done /\ LastOp = "finish")

\* C29 witness: the longest run is over: finish() was called after
\* MaxTotalFrames + 1 + MaxHoldFrames frames.
C29_Witness ==
    /\ Done
    /\ LastOp = "finish"
    /\ AddCount = MaxTotalFrames + 1 + MaxHoldFrames

-----------------------------------------------------------------------------
(* The encoder HTMLTemplate.getGifEncoder returns as source text, beside   *)
(* the standalone GIFEncoder: data is the buffer of the standalone         *)
(* encoder, twin that of the embedded one, and both are given the same     *)
(* calls.  The text is a template literal without substitutions or         *)
(* escapes, so the page runs it as it stands.                              *)

\* embedded start(): the bytes it leaves in this.data
EmbeddedStart(w, h) ==
    StrGIF89a
    \o WriteShort(w) \o WriteShort(h)
    \o WriteByte(112) \o WriteByte(0) \o WriteByte(0)
    \o WriteByte(33) \o WriteByte(255) \o WriteByte(11)
    \o StrNETSCAPE
    \o WriteByte(3) \o WriteByte(1) \o WriteShort(0) \o WriteByte(0)

\* a faulty variant of the embedded addFrame: the color table is written
\* before the image descriptor
EmbeddedFrameTableFirst(w, h, pixels, delay) ==
    Bind(SortedColors(pixels), LAMBDA sorted :
        WriteByte(33) \o WriteByte(249) \o WriteByte(4)
        \o WriteByte(0) \o WriteShort(RoundDiv10(delay))
        \o WriteByte(0) \o WriteByte(0)
        \o Palette(sorted)
        \o WriteByte(44) \o WriteShort(0) \o WriteShort(0)
        \o WriteShort(w) \o WriteShort(h) \o WriteByte(135)
        \o WriteByte(8)
        \o Bind(Indexed(pixels, sorted), LAMBDA indexed : LzwEncode(indexed))
        \o WriteByte(0))

\* embedded addFrame(ctx, delay): the bytes it appends; its counting,
\* sorting, mapping and lzwEncode are, statement for statement, those of
\* the standalone encoder
EmbeddedFrame(w, h, pixels, delay) ==
    Bind(SortedColors(pixels), LAMBDA sorted :
        WriteByte(33) \o WriteByte(249) \o WriteByte(4)
        \o WriteByte(0) \o WriteShort(RoundDiv10(delay))
        \o WriteByte(0) \o WriteByte(0)
        \o WriteByte(44) \o WriteShort(0) \o WriteShort(0)
        \o WriteShort(w) \o WriteShort(h) \o WriteByte(135)
        \o Palette(sorted)
        \o WriteByte(8)
        \o Bind(Indexed(pixels, sorted), LAMBDA indexed : LzwEncode(indexed))
        \o WriteByte(0))

\* embedded finish(): the byte it appends
EmbeddedFinish == WriteByte(59)

\* start() on both encoders
BothStart ==
    /\ Len(calls) < MaxTwinCalls
    /\ data' = StartBytes(width, height)
    /\ twin' = EmbeddedStart(width, height)
    /\ calls' = Append(calls, <<"start", 0>>)
    /\ UNCHANGED <<width, height, canvas, pc, plane, lz, dec, opts, frames, gif,
                   bounds, placedRegions, anim, timers, drv, ui>>

\* addFrame(ctx, delay) on both encoders
BothAddFrame(pixels, delay) ==
    /\ Len(calls) < MaxTwinCalls
    /\ canvas' = pixels
    /\ \E block \in {FrameBlock(width, height, pixels, delay)} : data' = data \o block
    /\ \E block \in {EmbeddedFrame(width, height, pixels, delay)} : twin' = twin \o block
    /\ calls' = Append(calls, <<"addFrame", delay>>)
    /\ UNCHANGED <<width, height, pc, plane, lz, dec, opts, frames, gif, bounds,
                   placedRegions, anim, timers, drv, ui>>

\* finish() on both encoders
BothFinish ==
    /\ Len(calls) < MaxTwinCalls
    /\ data' = data \o WriteByte(Trailer)
    /\ twin' = twin \o EmbeddedFinish
    /\ calls' = Append(calls, <<"finish", 0>>)
    /\ UNCHANGED <<width, height, canvas, pc, plane, lz, dec, opts, frames, gif,
                   bounds, placedRegions, anim, timers, drv, ui>>

NextBoth ==
    \/ BothStart
    \/ \E in \in Inputs(width, height) : BothAddFrame(in[1], in[2])
    \/ BothFinish

SpecBoth == Init /\ [][NextBoth]_vars

=============================================================================
